---- MODULE Spec2Model ----
(***************************************************************************)
(* Station-selection search engine of ebus_toolbox/optimizer.py:           *)
(* fingerprints of station sets, the event grouper, the event extractor,   *)
(* the fast SoC kernel and the recursive search driver.                    *)
(*                                                                         *)
(* SoC values are integers in units of 1/SocOne (soc 1.0 = SocOne), times  *)
(* are whole minutes and one simulation step is one minute.                *)
(***************************************************************************)
EXTENDS Integers, Sequences, FiniteSets, TLC

VARIABLES
    call,                     \* activation record of a function exercised on its own
    pc,                       \* position in main / optimization_loop
    cfg,                      \* configuration and schedule read by main
    ele_stations,             \* main's electrified-stations map
    ele_station_set,          \* main's electrified set
    base_socs,                \* base_scen.vehicle_socs
    groups,                   \* optimization_loop: groups of the baseline events
    group_nr,                 \* optimization_loop: index of the group being optimized
    electrified_stations,     \* optimization_loop: map handed to the group search
    electrified_station_set,  \* optimization_loop: set handed to the greedy search
    new_electrified_set,      \* optimization_loop: set of one deep iteration
    could_not_be_electrified, \* optimization_loop: rotations given up
    cnbe_copy,                \* optimization_loop: could_not_be_electrified_copy
    default_cnbe,             \* get_groups_from_events: its default could_not_be_electrified
    decision_tree,            \* memo: fingerprint -> missing_energy, visit_counter
    pre_optimized_set,        \* optimization_loop: incumbent, or None
    list_greedy_sets,         \* optimization_loop: result per group
    deep_i,                   \* optimization_loop: i of the deep loop
    cont_loop,                \* optimization_loop: cont_loop of the deep loop
    sols,                     \* optimization_loop: sets found by deep iterations
    stack,                    \* frames of group_optimization_quick, innermost last
    ret,                      \* value returned by the last finished call
    events_seen,              \* record of the extractions and choices of the run
    returned                  \* what optimization_loop returned, or None

driverVars == <<pc, cfg, ele_stations, ele_station_set, base_socs, groups, group_nr,
                electrified_stations, electrified_station_set, new_electrified_set,
                could_not_be_electrified, cnbe_copy, default_cnbe, decision_tree,
                pre_optimized_set,
                list_greedy_sets, deep_i, cont_loop, sols, stack, ret, events_seen,
                returned>>

vars == <<call, driverVars>>

(***************************************************************************)
(* Generic helpers on sequences and sets.                                  *)
(***************************************************************************)
Range(s) == {s[i] : i \in DOMAIN s}

NoDup(s) == \A i, j \in DOMAIN s : i # j => s[i] # s[j]

RECURSIVE Concat(_)
Concat(ss) == IF ss = <<>> THEN <<>> ELSE Head(ss) \o Concat(Tail(ss))

RECURSIVE SumSeq(_)
SumSeq(s) == IF s = <<>> THEN 0 ELSE Head(s) + SumSeq(Tail(s))

Min2(a, b) == IF a <= b THEN a ELSE b
Max2(a, b) == IF a >= b THEN a ELSE b

\* All duplicate-free sequences over S with at most n elements.
RECURSIVE SeqsNoDup(_, _)
SeqsNoDup(S, n) ==
    IF n = 0 THEN {<<>>}
    ELSE LET shorter == SeqsNoDup(S, n - 1)
             longest == {t \in shorter : Len(t) = n - 1}
         IN  shorter \cup {Append(t, x) : <<t, x>> \in {p \in longest \X S : p[2] \notin Range(p[1])}}

Perms(S) == {s \in SeqsNoDup(S, Cardinality(S)) : Len(s) = Cardinality(S)}

(***************************************************************************)
(* Python strings: a string is a sequence of one-character strings.        *)
(***************************************************************************)
\* ord() of the characters station names are built from
Ord(c) ==
    CASE c = " "  -> 32
      [] c = "\"" -> 34
      [] c = "'"  -> 39
      [] c = ","  -> 44
      [] c = "["  -> 91
      [] c = "\\" -> 92
      [] c = "]"  -> 93
      [] c = "a"  -> 97
      [] c = "b"  -> 98
      [] c = "c"  -> 99
      [] c = "d"  -> 100

\* str.__lt__: lexicographic by code point, a proper prefix is smaller
RECURSIVE StrLess(_, _)
StrLess(s, t) ==
    IF t = <<>> THEN FALSE
    ELSE IF s = <<>> THEN TRUE
    ELSE IF Ord(Head(s)) # Ord(Head(t)) THEN Ord(Head(s)) < Ord(Head(t))
    ELSE StrLess(Tail(s), Tail(t))

\* repr() of a str: double quotes when the text holds ' and no ", single quotes
\* otherwise; the delimiter and the backslash are escaped by a backslash.
ReprQuote(s) ==
    IF "'" \in Range(s) /\ "\"" \notin Range(s) THEN "\"" ELSE "'"

RECURSIVE ReprBody(_, _)
ReprBody(s, q) ==
    IF s = <<>> THEN <<>>
    ELSE (IF Head(s) = q \/ Head(s) = "\\" THEN <<"\\", Head(s)>> ELSE <<Head(s)>>)
         \o ReprBody(Tail(s), q)

Repr(s) == <<ReprQuote(s)>> \o ReprBody(s, ReprQuote(s)) \o <<ReprQuote(s)>>

\* str() of a list of str: "[" + ", ".join(repr(x)) + "]"
RECURSIVE JoinRepr(_)
JoinRepr(l) ==
    IF l = <<>> THEN <<>>
    ELSE IF Len(l) = 1 THEN Repr(l[1])
    ELSE Repr(l[1]) \o <<",", " ">> \o JoinRepr(Tail(l))

StrOfList(l) == <<"[">> \o JoinRepr(l) \o <<"]">>

\* sorted(): insertion of each item behind the items not greater than it (stable)
RECURSIVE InsertSorted(_, _)
InsertSorted(l, x) ==
    IF l = <<>> THEN <<x>>
    ELSE IF StrLess(x, Head(l)) THEN <<x>> \o l
    ELSE <<Head(l)>> \o InsertSorted(Tail(l), x)

RECURSIVE Sorted(_)
Sorted(l) == IF l = <<>> THEN <<>> ELSE InsertSorted(Sorted(SubSeq(l, 1, Len(l) - 1)), l[Len(l)])

\* list(a_set): some order of the members
RECURSIVE ListOf(_)
ListOf(S) == IF S = {} THEN <<>> ELSE LET x == CHOOSE y \in S : TRUE IN <<x>> \o ListOf(S \ {x})

\* A mutation of stations_hash: the sort is left out.
stations_hash_unsorted(stations_list) == StrOfList(stations_list)

\* stations_hash(stations_set) of a list (or of list(a_set))
stations_hash(stations_list) == StrOfList(Sorted(stations_list))

\* stations_hash of a set
HashOfSet(S) == stations_hash(ListOf(S))

\* Python's None where the value is otherwise a list or a map; an optional set
\* is None or the one-element tuple of the set
None == <<>>

(***************************************************************************)
(* The driver at rest, for the specifications that exercise one function.  *)
(***************************************************************************)
DriverIdle ==
    /\ pc = "idle"
    /\ cfg = <<>>
    /\ ele_stations = <<>>
    /\ ele_station_set = {}
    /\ base_socs = <<>>
    /\ groups = <<>>
    /\ group_nr = 0
    /\ electrified_stations = <<>>
    /\ electrified_station_set = {}
    /\ new_electrified_set = {}
    /\ could_not_be_electrified = {}
    /\ cnbe_copy = {}
    /\ default_cnbe = {}
    /\ decision_tree = <<>>
    /\ pre_optimized_set = None
    /\ list_greedy_sets = <<>>
    /\ deep_i = 0
    /\ cont_loop = TRUE
    /\ sols = <<>>
    /\ stack = <<>>
    /\ ret = None
    /\ events_seen = {}
    /\ returned = None

(***************************************************************************)
(* stations_hash on its own: two collections of station names, each given  *)
(* in some order, are fingerprinted.                                       *)
(***************************************************************************)
MaxHashLen == 2

\* Station names that contain the characters the serialisation itself uses.
NamePool ==
    { <<"a">>, <<"b">>, <<"a", "'", ",", " ", "'", "b">>, <<"'">>, <<"\"">>,
      <<"\\", "'">>, <<"a", "'", "\"">> }

HashInputs == SeqsNoDup(NamePool, MaxHashLen)

InitHash ==
    /\ call \in [fn : {"stations_hash"}, pc : {"start"}, s1 : HashInputs, s2 : HashInputs,
                 h1 : {<<>>}, h2 : {<<>>}]
    /\ DriverIdle

HashCall ==
    /\ call.fn = "stations_hash" /\ call.pc = "start"
    /\ call' = [call EXCEPT !.pc = "done",
                            !.h1 = stations_hash(call.s1),
                            !.h2 = stations_hash(call.s2)]
    /\ UNCHANGED driverVars

NextHash == HashCall

SpecHash == InitHash /\ [][NextHash]_vars

\* C8: stations_hash is order-invariant and injective on station sets: two
\* collections get the same fingerprint exactly when they hold the same stations,
\* whatever the order in which the stations are supplied.
C8_HashInjectiveOrderInvariant ==
    (call.fn = "stations_hash" /\ call.pc = "done") =>
        ((call.h1 = call.h2) <=> (Range(call.s1) = Range(call.s2)))

\* Two different orders of the same two stations have been fingerprinted, and so
\* have two different sets whose names hold the separator characters.
C8_Witness ==
    /\ call.fn = "stations_hash" /\ call.pc = "done"
    /\ Len(call.s1) = 2 /\ call.s1 # call.s2 /\ Range(call.s1) = Range(call.s2)
    /\ call.h1 = call.h2

(***************************************************************************)
(* Event grouper: join_subsets, join_all_subsets, get_groups_from_events.  *)
(***************************************************************************)
\* list.remove(x): the first item equal to x is dropped
RECURSIVE RemoveFirst(_, _)
RemoveFirst(l, x) ==
    IF l = <<>> THEN <<>>
    ELSE IF Head(l) = x THEN Tail(l)
    ELSE <<Head(l)>> \o RemoveFirst(Tail(l), x)

\* The first pair (i, ii), i # ii, in loop order whose subsets intersect.
JoinablePairs(subsets) ==
    {p \in (DOMAIN subsets) \X (DOMAIN subsets) :
        p[1] # p[2] /\ subsets[p[1]] \cap subsets[p[2]] # {}}

FirstPair(P) ==
    CHOOSE p \in P : \A q \in P : p[1] < q[1] \/ (p[1] = q[1] /\ p[2] <= q[2])

\* A mutation of join_subsets: a join is made but not signalled to the caller.
join_subsets_unsignalled(subsets) ==
    IF JoinablePairs(subsets) = {} THEN [joined |-> FALSE, subsets |-> subsets]
    ELSE LET p == FirstPair(JoinablePairs(subsets))
             u == subsets[p[1]] \cup subsets[p[2]]
             assigned == [subsets EXCEPT ![p[1]] = u]
         IN  [joined |-> FALSE, subsets |-> RemoveFirst(assigned, assigned[p[2]])]

join_subsets(subsets) ==
    IF JoinablePairs(subsets) = {} THEN [joined |-> FALSE, subsets |-> subsets]
    ELSE LET p == FirstPair(JoinablePairs(subsets))
             u == subsets[p[1]] \cup subsets[p[2]]
             assigned == [subsets EXCEPT ![p[1]] = u]
         IN  [joined |-> TRUE, subsets |-> RemoveFirst(assigned, assigned[p[2]])]

RECURSIVE join_all_subsets(_)
join_all_subsets(subsets) ==
    LET r == join_subsets(subsets)
    IN  IF r.joined THEN join_all_subsets(r.subsets) ELSE r.subsets

\* sorted(groups, key=len(x[1])): stable insertion by the size of the station subset
RECURSIVE InsertByLen(_, _)
InsertByLen(l, g) ==
    IF l = <<>> THEN <<g>>
    ELSE IF Cardinality(g.stations) < Cardinality(Head(l).stations) THEN <<g>> \o l
    ELSE <<Head(l)>> \o InsertByLen(Tail(l), g)

RECURSIVE SortByLen(_)
SortByLen(l) ==
    IF l = <<>> THEN <<>> ELSE InsertByLen(SortByLen(SubSeq(l, 1, Len(l) - 1)), l[Len(l)])

\* The subset an event is appended to: the first one that holds the station
\* next(iter(e["stations"])) yields (pick[k] for event k); 0 when the loop over the
\* subsets ends without a break.
SubsetOfEvent(e, k, station_subsets, pick) ==
    LET hits == {i \in DOMAIN station_subsets :
                    e.stations # {} /\ pick[k] \in station_subsets[i]}
    IN  IF hits = {} THEN 0 ELSE CHOOSE i \in hits : \A j \in hits : i <= j

\* The choices next(iter(e["stations"])) can make for the events of a list
PickFns(events) ==
    {f \in [DOMAIN events -> UNION ({{<<>>}} \cup {e.stations : e \in Range(events)})] :
        \A k \in DOMAIN events :
            IF events[k].stations = {} THEN f[k] = <<>> ELSE f[k] \in events[k].stations}

\* Lines 367-387, given the joined station subsets
AssignEvents(events, station_subsets, cnbe, pick) ==
    LET where == [k \in DOMAIN events |-> SubsetOfEvent(events[k], k, station_subsets, pick)]
        event_groups == [i \in DOMAIN station_subsets |->
                            SelectSeq([k \in DOMAIN events |-> <<k, events[k]>>],
                                      LAMBDA ke : where[ke[1]] = i)]
        zipped == [i \in DOMAIN station_subsets |->
                      [events |-> [j \in DOMAIN event_groups[i] |-> event_groups[i][j][2]],
                       stations |-> station_subsets[i]]]
    IN  [groups |-> SortByLen(zipped),
         cnbe |-> cnbe \cup {events[k].rotation : k \in {j \in DOMAIN events : where[j] = 0}}]

get_groups_from_events(events, not_possible_stations, cnbe, pick) ==
    LET possible_stations == [k \in DOMAIN events |->
                                 events[k].stations \ not_possible_stations]
    IN  AssignEvents(events, join_all_subsets(possible_stations), cnbe, pick)

\* Some choice of next(iter(...)) per event
AnyPick(events) == CHOOSE f \in PickFns(events) : TRUE

(***************************************************************************)
(* get_groups_from_events on its own: a list of events whose candidate     *)
(* stations were already cleared of the forbidden stations, as the         *)
(* extractor delivers them.                                                *)
(***************************************************************************)
MaxEvents == 3

StA == <<"a">>
StB == <<"b">>
StC == <<"c">>
StD == <<"d">>

GroupStations == {StA, StB, StC}

RECURSIVE EventLists(_)
EventLists(n) ==
    IF n = 0 THEN {<<>>}
    ELSE LET shorter == EventLists(n - 1)
         IN  shorter \cup {Append(l, [stations |-> st, rotation |-> IF n = 2 THEN "r2" ELSE "r1"]) :
                              <<l, st>> \in {t \in shorter : Len(t) = n - 1} \X SUBSET GroupStations}

InitGroups ==
    /\ \E events \in EventLists(MaxEvents), nps \in SUBSET GroupStations :
          /\ \A k \in DOMAIN events : events[k].stations \cap nps = {}
          /\ call = [fn |-> "get_groups_from_events", pc |-> "join", events |-> events,
                     not_possible_stations |-> nps,
                     station_subsets |-> [k \in DOMAIN events |-> events[k].stations \ nps],
                     passes |-> 0, groups |-> <<>>, cnbe |-> {}]
    /\ DriverIdle

\* One pass of the loop of join_all_subsets
GroupsJoinPass ==
    /\ call.fn = "get_groups_from_events" /\ call.pc = "join"
    /\ LET r == join_subsets(call.station_subsets)
       IN  call' = [call EXCEPT !.station_subsets = r.subsets,
                                !.passes = @ + 1,
                                !.pc = IF r.joined THEN "join" ELSE "assign"]
    /\ UNCHANGED driverVars

\* Lines 367-387
GroupsAssign ==
    /\ call.fn = "get_groups_from_events" /\ call.pc = "assign"
    /\ \E pick \in PickFns(call.events) :
          LET r == AssignEvents(call.events, call.station_subsets, call.cnbe, pick)
          IN  call' = [call EXCEPT !.pc = "done", !.groups = r.groups, !.cnbe = r.cnbe]
    /\ UNCHANGED driverVars

NextGroups == GroupsJoinPass \/ GroupsAssign

SpecGroups == InitGroups /\ [][NextGroups]_vars

EventStations(group) == UNION {group.events[j].stations : j \in DOMAIN group.events}

\* C4: the groups returned by get_groups_from_events are pairwise station-disjoint:
\* a candidate station of an event of one group is neither a candidate of an event
\* of another group nor a member of another group's station set.
C4_GroupsStationDisjoint ==
    (call.fn = "get_groups_from_events" /\ call.pc = "done") =>
        \A g, h \in DOMAIN call.groups :
            g # h => /\ call.groups[g].stations \cap call.groups[h].stations = {}
                     /\ EventStations(call.groups[g]) \cap EventStations(call.groups[h]) = {}
                     /\ EventStations(call.groups[g]) \cap call.groups[h].stations = {}

\* Two groups with events came back, one of them joined from events with different
\* station sets by a pass of join_subsets.
C4_Witness ==
    /\ call.fn = "get_groups_from_events" /\ call.pc = "done"
    /\ call.passes >= 2
    /\ \E g, h \in DOMAIN call.groups :
          /\ g # h
          /\ call.groups[g].events # <<>> /\ call.groups[h].events # <<>>
          /\ \E i, j \in DOMAIN call.groups[g].events :
                call.groups[g].events[i].stations # call.groups[g].events[j].stations

(***************************************************************************)
(* Event extractor: get_below_zero_soc_events and what it calls.           *)
(* A trace is a sequence; At(soc, i) is soc[i] of the 0-based source.      *)
(***************************************************************************)
\* 1.0, in twentieths, so that the threshold 0.95 is a whole number of units
SocOne == 4 * 5

\* soc_upper_thresh=0.95 of the extraction on the baseline
SocUpperBase == SocOne - 1

At(soc, i) == soc[i + 1]

\* get_charging_time with min_charging_time = 0 and no buffer time (lines 69, 70)
get_charging_time(trip1, trip2) ==
    LET standing_time_min == trip2.departure_time - trip1.arrival_time
    IN  IF 0 > standing_time_min THEN 0 ELSE Max2(0, standing_time_min - 0)

\* get_trips: the trips that arrive strictly inside the window
get_trips(rot, start_idx, end_idx) ==
    SelectSeq(rot.trips, LAMBDA trip : end_idx > trip.arrival_time /\ trip.arrival_time > start_idx)

\* Line 1034 left out: the forbidden stations stay in
PossibleStationsUnfiltered(trips, not_possible_stations) ==
    {trips[ii].arrival_name : ii \in {k \in DOMAIN trips :
        k < Len(trips) /\ get_charging_time(trips[k], trips[k + 1]) > 0}}

\* Lines 1016-1034 with filter_standing_time: the trips of the event that stand
\* before the next trip of the event; the last trip of the event has none.
PossibleStations(trips, not_possible_stations) ==
    {trips[ii].arrival_name : ii \in {k \in DOMAIN trips :
        k < Len(trips) /\ get_charging_time(trips[k], trips[k + 1]) > 0}} \ not_possible_stations

\* min(reduced_list, key=soc): the first index of the least soc
MinIdx(soc, reduced) ==
    LET k == CHOOSE k \in DOMAIN reduced :
                 /\ \A j \in DOMAIN reduced : At(soc, reduced[k]) <= At(soc, reduced[j])
                 /\ \A j \in DOMAIN reduced : j < k => At(soc, reduced[j]) > At(soc, reduced[k])
    IN  reduced[k]

\* Lines 995-999: the lower threshold of the rotation
LowerThreshCur(relative_soc, start_soc, soc_upper_thresh, soc_lower_thresh) ==
    IF relative_soc
    THEN Min2(start_soc, soc_upper_thresh) - (soc_upper_thresh - soc_lower_thresh)
    ELSE soc_lower_thresh

\* SOC_UPPER_THRESH of the rotation
UpperThreshCur(relative_soc, start_soc, soc_upper_thresh, soc_lower_thresh) ==
    IF relative_soc
    THEN LowerThreshCur(relative_soc, start_soc, soc_upper_thresh, soc_lower_thresh)
         + soc_upper_thresh
    ELSE soc_upper_thresh

\* Lines 1003-1007: walk left from the minimum
RECURSIVE WalkLeft(_, _, _, _)
WalkLeft(soc, i, rot_start_idx, upper) ==
    IF At(soc, i) < upper
    THEN IF i = rot_start_idx THEN i ELSE WalkLeft(soc, i - 1, rot_start_idx, upper)
    ELSE i

\* Lines 1010-1013: walk right from the minimum
RECURSIVE WalkRight(_, _, _, _)
WalkRight(soc, i, rot_end_idx, upper) ==
    IF At(soc, i) < upper
    THEN IF i >= rot_end_idx - 1 THEN i ELSE WalkRight(soc, i + 1, rot_end_idx, upper)
    ELSE i

\* list.index(x): the 0-based position, or -1 where the source raises ValueError
IndexOf(l, x) ==
    IF x \in Range(l) THEN (CHOOSE k \in DOMAIN l : l[k] = x /\ \A j \in DOMAIN l : l[j] = x => k <= j) - 1
    ELSE -1

\* One pass of the loop at line 1002 up to the new residual (lines 1003-1014 and
\* 1046-1053): the window, the residual without it, or the ValueError of idx.index.
CarveWindow(soc, reduced, min_idx, rot_start_idx, rot_end_idx, upper) ==
    LET start == WalkLeft(soc, min_idx, rot_start_idx, upper)
        end == WalkRight(soc, min_idx, rot_end_idx, upper)
        start_comb == IndexOf(reduced, start)
        end_comb == IndexOf(reduced, end)
    IN  [error |-> start_comb < 0 \/ end_comb < 0,
         start |-> start, end |-> end,
         reduced |-> IF start_comb < 0 \/ end_comb < 0 THEN reduced
                     ELSE SubSeq(reduced, 1, start_comb)
                          \o (IF end_comb + 1 <= Len(reduced)
                              THEN SubSeq(reduced, end_comb + 2, Len(reduced)) ELSE <<>>)]

\* Lines 1015-1043: the event of a window
MakeEvent(rot, start, min_idx, min_soc, not_possible_stations) ==
    LET trips == get_trips(rot, start, min_idx)
    IN  [start_idx |-> start, end_idx |-> min_idx, min_soc |-> min_soc,
         stations |-> PossibleStations(trips, not_possible_stations),
         vehicle_id |-> rot.vehicle_id, trip |-> trips, rotation |-> rot.id,
         capacity |-> rot.capacity]

\* The loop at line 1002 for one rotation, from a residual on
RECURSIVE ExtractLoop(_, _, _, _, _, _)
ExtractLoop(rot, soc, reduced, lower, upper, not_possible_stations) ==
    IF reduced = <<>> THEN [error |-> FALSE, events |-> <<>>]
    ELSE LET min_idx == MinIdx(soc, reduced)
             min_soc == At(soc, min_idx)
         IN  IF min_soc >= lower THEN [error |-> FALSE, events |-> <<>>]
             ELSE LET c == CarveWindow(soc, reduced, min_idx, rot.dep_idx, rot.arr_idx, upper)
                      e == MakeEvent(rot, c.start, min_idx, min_soc, not_possible_stations)
                  IN  IF c.error THEN [error |-> TRUE, events |-> <<e>>]
                      ELSE LET rest == ExtractLoop(rot, soc, c.reduced, lower, upper,
                                                   not_possible_stations)
                           IN  [error |-> rest.error, events |-> <<e>> \o rest.events]

\* The indices rot_start_idx .. rot_end_idx - 1 of the slice at line 987
Window(rot_start_idx, rot_end_idx) ==
    [k \in 1..(rot_end_idx - rot_start_idx) |-> rot_start_idx + k - 1]

\* Lines 982-1057 for one rotation
ExtractRotation(rot, soc, soc_upper_thresh, soc_lower_thresh, relative_soc, not_possible_stations) ==
    LET start_soc == At(soc, rot.dep_idx)
    IN  ExtractLoop(rot, soc, Window(rot.dep_idx, rot.arr_idx),
                    LowerThreshCur(relative_soc, start_soc, soc_upper_thresh, soc_lower_thresh),
                    UpperThreshCur(relative_soc, start_soc, soc_upper_thresh, soc_lower_thresh),
                    not_possible_stations)

\* get_below_zero_soc_events over the rotations in the given order; socs maps
\* vehicle ids to traces, rots maps rotation ids to rotations
RECURSIVE get_below_zero_soc_events(_, _, _, _, _, _, _)
get_below_zero_soc_events(socs, rotations, rots, soc_upper_thresh, soc_lower_thresh, relative_soc, not_possible_stations) ==
    IF rotations = <<>> THEN [error |-> FALSE, events |-> <<>>]
    ELSE LET rot == rots[Head(rotations)]
             one == ExtractRotation(rot, socs[rot.vehicle_id], soc_upper_thresh,
                                    soc_lower_thresh, relative_soc, not_possible_stations)
         IN  IF one.error THEN [error |-> TRUE, events |-> one.events]
             ELSE LET rest == get_below_zero_soc_events(socs, Tail(rotations), rots,
                                  soc_upper_thresh, soc_lower_thresh, relative_soc,
                                  not_possible_stations)
                  IN  [error |-> rest.error, events |-> one.events \o rest.events]

(***************************************************************************)
(* get_below_zero_soc_events on its own, for one rotation: a trace, the    *)
(* rotation window and the thresholds; one action per pass of the loop at  *)
(* line 1002.                                                              *)
(***************************************************************************)
TraceLen == 5

\* Samples below the lower threshold, between the thresholds and at the top
SampleVals == {-2, -1, SocOne \div 2, SocOne}

InitExtract ==
    /\ \E soc \in [1..TraceLen -> SampleVals], rot_start_idx \in {0, 1},
          rot_end_idx \in {TraceLen - 1, TraceLen}, relative_soc \in BOOLEAN :
          LET upper_arg == IF relative_soc THEN SocOne ELSE SocUpperBase
              start_soc == At(soc, rot_start_idx)
          IN  call = [fn |-> "get_below_zero_soc_events", pc |-> "loop", soc |-> soc,
                      rot_start_idx |-> rot_start_idx, rot_end_idx |-> rot_end_idx,
                      lower |-> LowerThreshCur(relative_soc, start_soc, upper_arg, 0),
                      upper |-> UpperThreshCur(relative_soc, start_soc, upper_arg, 0),
                      reduced |-> Window(rot_start_idx, rot_end_idx),
                      windows |-> <<>>]
    /\ DriverIdle

ExtractGoesOn ==
    /\ call.fn = "get_below_zero_soc_events" /\ call.pc = "loop"
    /\ call.reduced # <<>>
    /\ At(call.soc, MinIdx(call.soc, call.reduced)) < call.lower

\* One pass of the loop that carves a window
ExtractPass ==
    /\ ExtractGoesOn
    /\ LET c == CarveWindow(call.soc, call.reduced, MinIdx(call.soc, call.reduced),
                            call.rot_start_idx, call.rot_end_idx, call.upper)
       IN  /\ ~c.error
           /\ call' = [call EXCEPT !.reduced = c.reduced,
                                   !.windows = Append(@, <<c.start, c.end>>)]
    /\ UNCHANGED driverVars

\* One pass of the loop in which idx.index(i) raises ValueError
ExtractRaise ==
    /\ ExtractGoesOn
    /\ CarveWindow(call.soc, call.reduced, MinIdx(call.soc, call.reduced),
                   call.rot_start_idx, call.rot_end_idx, call.upper).error
    /\ call' = [call EXCEPT !.pc = "ValueError"]
    /\ UNCHANGED driverVars

\* The loop ends: the least residual soc is not below the threshold, or nothing is left
ExtractReturn ==
    /\ call.fn = "get_below_zero_soc_events" /\ call.pc = "loop"
    /\ ~ExtractGoesOn
    /\ call' = [call EXCEPT !.pc = "done"]
    /\ UNCHANGED driverVars

NextExtract == ExtractPass \/ ExtractRaise \/ ExtractReturn

SpecExtract == InitExtract /\ [][NextExtract]_vars

WindowsOf(i) == {k \in DOMAIN call.windows : call.windows[k][1] <= i /\ i <= call.windows[k][2]}

\* C5: get_below_zero_soc_events completes, and every index of the rotation window
\* whose soc is below the lower threshold lies inside exactly one carved event
\* window, also when two excursions are separated by a single sample at or above
\* the upper threshold.
C5_ExtractCompletesAndCovers ==
    call.fn = "get_below_zero_soc_events" =>
        /\ call.pc # "ValueError"
        /\ call.pc = "done" =>
              \A i \in call.rot_start_idx .. (call.rot_end_idx - 1) :
                  At(call.soc, i) < call.lower => Cardinality(WindowsOf(i)) = 1

(***************************************************************************)
(* Fast SoC kernel: get_delta_soc and timeseries_calc.                     *)
(***************************************************************************)
\* A soc-over-time table as charging_curve_to_soc_over_time returns it: rows
\* (time, soc), increasing, from (0, 0) to soc 1
SocCurve ==
    << [time |-> 0, soc |-> 0], [time |-> 1, soc |-> 6], [time |-> 2, soc |-> 12],
       [time |-> 3, soc |-> 16], [time |-> 4, soc |-> 18], [time |-> 5, soc |-> SocOne] >>

\* The table read from its first row, whatever the soc
FirstRowAny(curve, soc) == curve[1]

\* curve[curve[:, 1] >= soc][0, :]
FirstRowWithSoc(curve, soc) ==
    curve[CHOOSE k \in DOMAIN curve :
              curve[k].soc >= soc /\ \A j \in DOMAIN curve : curve[j].soc >= soc => k <= j]

\* curve[curve[:, 0] >= time][0, :]
FirstRowWithTime(curve, time) ==
    curve[CHOOSE k \in DOMAIN curve :
              curve[k].time >= time /\ \A j \in DOMAIN curve : curve[j].time >= time => k <= j]

get_delta_soc(soc_over_time_curve, soc, time_delta) ==
    IF time_delta = 0 THEN 0
    ELSE LET soc0 == Max2(soc, 0)
             first == FirstRowWithSoc(soc_over_time_curve, soc0)
             second_time == first.time + time_delta
             end_soc == IF second_time >= soc_over_time_curve[Len(soc_over_time_curve)].time
                        THEN SocOne
                        ELSE FirstRowWithTime(soc_over_time_curve, second_time).soc
         IN  Min2(SocOne, end_soc - first.soc)

(***************************************************************************)
(* get_delta_soc on its own: a monotone soc-over-time table that ends at   *)
(* soc 1, a start soc and a charging time are given.                       *)
(***************************************************************************)
MaxCurveRows == 3
MaxCurveTime == 3
MaxTimeDelta == 4

CurveRows == [time : 0..MaxCurveTime, soc : {0, SocOne \div 2, SocOne}]

\* Tables with increasing times and non-decreasing soc whose last row has soc 1
Curves ==
    {c \in UNION {[1..n -> CurveRows] : n \in 1..MaxCurveRows} :
        /\ \A j, k \in DOMAIN c : j < k => (c[j].time < c[k].time /\ c[j].soc <= c[k].soc)
        /\ c[Len(c)].soc = SocOne}

InitDelta ==
    /\ call \in [fn : {"get_delta_soc"}, pc : {"start"}, soc_over_time_curve : Curves,
                 soc : 0..SocOne, time_delta : 0..MaxTimeDelta, delta_soc : {0}]
    /\ DriverIdle

DeltaCall ==
    /\ call.fn = "get_delta_soc" /\ call.pc = "start"
    /\ call' = [call EXCEPT !.pc = "done",
                            !.delta_soc = get_delta_soc(call.soc_over_time_curve, call.soc,
                                                        call.time_delta)]
    /\ UNCHANGED driverVars

NextDelta == DeltaCall

SpecDelta == InitDelta /\ [][NextDelta]_vars

\* C19: for every monotone soc-over-time table ending at soc 1, every start soc in
\* [0, 1] and every charging time >= 0, get_delta_soc returns a value between 0 and
\* 1 - max(soc, 0), and returns 0 when the charging time is 0.
C19_DeltaSocInRange ==
    (call.fn = "get_delta_soc" /\ call.pc = "done") =>
        /\ 0 <= call.delta_soc
        /\ call.delta_soc <= SocOne - Max2(call.soc, 0)
        /\ (call.time_delta = 0 => call.delta_soc = 0)

\* A charge that starts between two rows of the table and ends before its last row
\* has returned a positive lift below the room that was left.
C19_Witness ==
    /\ call.fn = "get_delta_soc" /\ call.pc = "done"
    /\ Len(call.soc_over_time_curve) = 3
    /\ 0 < call.soc /\ call.soc < SocOne \div 2
    /\ 0 < call.delta_soc /\ call.delta_soc < SocOne - call.soc

(***************************************************************************)
(* The sanitization of one baseline trace at the start of                  *)
(* optimization_loop (lines 241-249), statement by statement. An entry of  *)
(* a trace is None or the one-element tuple of its value.                  *)
(***************************************************************************)
MaxSanitizeLen == 4

SanitizeInputs ==
    UNION {[1..n -> {None, <<SocOne>>, <<SocOne \div 2>>, <<0>>}] : n \in 1..MaxSanitizeLen}

InitSanitize ==
    /\ \E soc \in SanitizeInputs :
          call = [fn |-> "sanitize", pc |-> "check", given |-> soc, soc |-> soc,
                  ii |-> Len(soc) - 1, last_not_none |-> None, error |-> "none"]
    /\ DriverIdle

\* Line 243: if None in soc
SanitizeCheck ==
    /\ call.fn = "sanitize" /\ call.pc = "check"
    /\ call' = [call EXCEPT !.pc = IF None \in Range(call.soc) THEN "search" ELSE "done"]
    /\ UNCHANGED driverVars

\* Lines 244-247: one turn of the loop that walks down from the last index, or
\* its end without a break
SanitizeSearch ==
    /\ call.fn = "sanitize" /\ call.pc = "search"
    /\ IF call.ii < 0 THEN call' = [call EXCEPT !.pc = "fill"]
       ELSE IF At(call.soc, call.ii) # None
       THEN call' = [call EXCEPT !.pc = "fill", !.last_not_none = At(call.soc, call.ii)]
       ELSE call' = [call EXCEPT !.ii = @ - 1]
    /\ UNCHANGED driverVars

\* Lines 248-249: soc[soc == np.array(None)] = last_not_none; for the first trace
\* the name is unbound (None here) when the loop found no value
SanitizeFill ==
    /\ call.fn = "sanitize" /\ call.pc = "fill"
    /\ IF call.last_not_none = None
       THEN call' = [call EXCEPT !.pc = "done", !.error = "NameError"]
       ELSE call' = [call EXCEPT !.pc = "done",
                        !.soc = [k \in DOMAIN @ |->
                                    IF @[k] = None THEN call.last_not_none ELSE @[k]]]
    /\ UNCHANGED driverVars

NextSanitize == SanitizeCheck \/ SanitizeSearch \/ SanitizeFill

SpecSanitize == InitSanitize /\ [][NextSanitize]_vars

\* C27: sanitization replaces every unknown entry of a baseline trace by the next
\* known value, that is the known value at the nearest later index, and leaves
\* every known entry unchanged.
C27_NextKnownValue ==
    (call.pc = "done") =>
        /\ call.error = "none"
        /\ \A k \in DOMAIN call.given :
              IF call.given[k] # None THEN call.soc[k] = call.given[k]
              ELSE \E j \in DOMAIN call.given :
                      /\ k < j /\ call.given[j] # None
                      /\ \A m \in DOMAIN call.given : (k < m /\ m < j) => call.given[m] = None
                      /\ call.soc[k] = call.given[j]

MaxOf(soc) == CHOOSE m \in Range(soc) : \A x \in Range(soc) : x <= m

\* np.linspace(0, d_soc, n)[j]
Linspace(d_soc, n, j) == IF n = 1 THEN 0 ELSE (d_soc * j) \div (n - 1)

\* Lines 805-810: the trace lifted by d_soc from idx on, rising over delta_idx samples
Lift(soc, idx, d_soc, delta_idx) ==
    [k \in DOMAIN soc |->
        IF k - 1 < idx THEN soc[k]
        ELSE IF k - 1 < idx + delta_idx THEN soc[k] + Linspace(d_soc, delta_idx, k - 1 - idx)
        ELSE soc[k] + d_soc]

\* Lines 817-819: the mask (soc > 1) * (diff < 0) at the 0-based index k; diff is
\* np.hstack((np.diff(soc), -1)), so the last sample counts as falling
LocMaxMask(soc, k) ==
    /\ At(soc, k) > SocOne
    /\ (IF k = Len(soc) - 1 THEN -1 ELSE At(soc, k + 1) - At(soc, k)) < 0

\* Line 816 and 819: desc * mask at index k, desc = np.arange(len(soc), 0, -1)
DescMasked(soc, k) == IF LocMaxMask(soc, k) THEN Len(soc) - k ELSE 0

\* The masked index at the greatest position
IdcLocMaxLast(soc) ==
    LET masked == {k \in 0..(Len(soc) - 1) : LocMaxMask(soc, k)}
    IN  IF masked = {} THEN 0 ELSE CHOOSE k \in masked : \A j \in masked : j <= k

\* Line 819: np.argmax, the first index that holds the greatest product
IdcLocMax(soc) ==
    LET idc == 0..(Len(soc) - 1)
        greatest == CHOOSE p \in {DescMasked(soc, k) : k \in idc} :
                        \A k \in idc : DescMasked(soc, k) <= p
    IN  CHOOSE k \in idc :
            /\ DescMasked(soc, k) = greatest
            /\ \A j \in idc : DescMasked(soc, j) = greatest => k <= j

\* A mutation of ClipPass: the values behind the local maximum are not reduced.
ClipPassNoReduce(soc) ==
    LET idc_loc_max == IdcLocMax(soc)
    IN  [k \in DOMAIN soc |->
            IF k - 1 >= idc_loc_max THEN soc[k]
            ELSE IF soc[k] > SocOne THEN SocOne ELSE soc[k]]

\* Lines 816-826: one pass of the clipping loop
ClipPass(soc) ==
    LET idc_loc_max == IdcLocMax(soc)
        soc_max == At(soc, idc_loc_max)
    IN  [k \in DOMAIN soc |->
            IF k - 1 >= idc_loc_max THEN soc[k] - (soc_max - SocOne)
            ELSE IF soc[k] > SocOne THEN SocOne ELSE soc[k]]

\* Lines 812-827: the clipping loop
RECURSIVE ClipLoop(_)
ClipLoop(soc) == IF MaxOf(soc) > SocOne THEN ClipLoop(ClipPass(soc)) ELSE soc

\* Lines 800-802: the charging time behind trip i of the rotation
StandingTime(trips, i) ==
    IF i + 1 <= Len(trips) THEN get_charging_time(trips[i], trips[i + 1]) ELSE 0

\* Lines 798-810 for trip i of the rotation
LiftTrip(soc, rot, i) ==
    LET idx == rot.trips[i].arrival_time
        standing_time_min == StandingTime(rot.trips, i)
        d_soc == get_delta_soc(SocCurve, At(soc, idx), standing_time_min)
    IN  Lift(soc, idx, d_soc, standing_time_min + 1)

\* Lines 794-828 from trip i on
RECURSIVE KernelTrips(_, _, _, _)
KernelTrips(soc, rot, i, ele) ==
    IF i > Len(rot.trips) THEN soc
    ELSE IF rot.trips[i].arrival_name \notin ele
         THEN KernelTrips(soc, rot, i + 1, ele)
         ELSE KernelTrips(ClipLoop(LiftTrip(soc, rot, i)), rot, i + 1, ele)

\* timeseries_calc: the traces of the given rotations recomputed, the others kept
timeseries_calc(station, rotations, soc_dict, ele_set, rots) ==
    [v \in DOMAIN soc_dict |->
        IF \E r \in rotations : rots[r].vehicle_id = v
        THEN LET r == CHOOSE r \in rotations : rots[r].vehicle_id = v
             IN  KernelTrips(soc_dict[v], rots[r], 1, ele_set \cup {station})
        ELSE soc_dict[v]]

(***************************************************************************)
(* timeseries_calc on its own, for one rotation: one action per trip and   *)
(* per pass of the clipping loop.                                          *)
(***************************************************************************)
KernelLen == 6

KernelVals == {-4, SocOne - 4, SocOne}

\* Trips that arrive at minutes 1, 3 and 5; the next trip leaves after the
\* standing time
KernelRot(st1, st2) ==
    [id |-> "r1", vehicle_id |-> "r1", dep_idx |-> 0, arr_idx |-> 5, capacity |-> 2,
     trips |-> << [arrival_time |-> 1, departure_time |-> 0, arrival_name |-> StA],
                  [arrival_time |-> 3, departure_time |-> 1 + st1, arrival_name |-> StB],
                  [arrival_time |-> 5, departure_time |-> 3 + st2, arrival_name |-> StA] >>]

InitKernel ==
    /\ \E soc \in [1..KernelLen -> KernelVals], st1 \in 0..2, st2 \in 0..2,
          ele \in SUBSET {StA, StB} :
          call = [fn |-> "timeseries_calc", pc |-> "trip", soc |-> soc, soc_in |-> soc,
                  rot |-> KernelRot(st1, st2), i |-> 1, ele_stations |-> ele, passes |-> 0,
                  lifts |-> 0, most_passes |-> 0]
    /\ DriverIdle

\* Line 796: the trip does not arrive at an electrified station
KernelSkip ==
    /\ call.fn = "timeseries_calc" /\ call.pc = "trip"
    /\ call.i <= Len(call.rot.trips)
    /\ call.rot.trips[call.i].arrival_name \notin call.ele_stations
    /\ call' = [call EXCEPT !.i = @ + 1]
    /\ UNCHANGED driverVars

\* Lines 798-812: the lift of one trip
KernelLift ==
    /\ call.fn = "timeseries_calc" /\ call.pc = "trip"
    /\ call.i <= Len(call.rot.trips)
    /\ call.rot.trips[call.i].arrival_name \in call.ele_stations
    /\ call' = [call EXCEPT !.soc = LiftTrip(call.soc, call.rot, call.i),
                            !.pc = "clip", !.passes = 0, !.lifts = @ + 1]
    /\ UNCHANGED driverVars

\* Lines 815-827: one pass of the clipping loop
KernelClipPass ==
    /\ call.fn = "timeseries_calc" /\ call.pc = "clip"
    /\ MaxOf(call.soc) > SocOne
    /\ call.passes <= Len(call.soc)
    /\ call' = [call EXCEPT !.soc = ClipPass(call.soc), !.passes = @ + 1,
                            !.most_passes = Max2(@, call.passes + 1)]
    /\ UNCHANGED driverVars

\* Line 815: the clipping loop ends
KernelClipEnd ==
    /\ call.fn = "timeseries_calc" /\ call.pc = "clip"
    /\ MaxOf(call.soc) <= SocOne
    /\ call' = [call EXCEPT !.pc = "trip", !.i = @ + 1]
    /\ UNCHANGED driverVars

\* Lines 829-831
KernelReturn ==
    /\ call.fn = "timeseries_calc" /\ call.pc = "trip"
    /\ call.i > Len(call.rot.trips)
    /\ call' = [call EXCEPT !.pc = "done"]
    /\ UNCHANGED driverVars

NextKernel == KernelSkip \/ KernelLift \/ KernelClipPass \/ KernelClipEnd \/ KernelReturn

SpecKernel == InitKernel /\ [][NextKernel]_vars

\* C6: for an input trace with all values at most 1 and any set of electrified
\* stations, the clipping loop of timeseries_calc terminates (it makes at most one
\* pass per sample) and the trace returned has no value above 1.
C6_ClipTerminatesAtMostOne ==
    call.fn = "timeseries_calc" =>
        /\ call.passes <= Len(call.soc)
        /\ call.pc = "clip" => (MaxOf(call.soc) > SocOne => call.passes < Len(call.soc))
        /\ call.pc = "done" => MaxOf(call.soc) <= SocOne

\* A call has returned in which a lift pushed the trace above 1 and the clipping
\* loop needed more than one pass.
C6_Witness ==
    /\ call.fn = "timeseries_calc" /\ call.pc = "done"
    /\ call.lifts >= 1 /\ call.most_passes >= 2
    /\ call.soc # call.soc_in

\* The samples of a trace, 0-based, that exceed 1 and are followed by a fall
FallingAboveOne(soc) == {k \in 0..(Len(soc) - 1) : LocMaxMask(soc, k)}

\* One pass of the clipping loop took the trace from soc to soc_after with idx as
\* its local maximum: the excess over 1 at idx is subtracted from idx to the end
\* and earlier values above 1 are set to 1
ClippedAt(soc, soc_after, idx) ==
    \A k \in 0..(Len(soc) - 1) :
        At(soc_after, k) = IF k >= idx THEN At(soc, k) - (At(soc, idx) - SocOne)
                           ELSE IF At(soc, k) > SocOne THEN SocOne ELSE At(soc, k)

\* C28 as stated: in each iteration of the clipping loop of timeseries_calc the
\* index chosen as the local maximum is the rightmost index whose SoC exceeds 1 and
\* whose difference to the next sample is negative; the excess over 1 at that index
\* is subtracted from that index to the end, and earlier values above 1 are set to 1.
C28_RightmostLocalMaximum ==
    [][(call.fn = "timeseries_calc" /\ call.pc = "clip" /\ call'.passes = call.passes + 1) =>
          \E idx \in FallingAboveOne(call.soc) :
              /\ \A j \in FallingAboveOne(call.soc) : j <= idx
              /\ ClippedAt(call.soc, call'.soc, idx)]_vars

\* C28, amended: the index chosen is the leftmost index whose SoC exceeds 1 and
\* whose difference to the next sample is negative (the last sample counts as
\* followed by a fall); the excess over 1 at that index is subtracted from that
\* index to the end, and earlier values above 1 are set to 1.
C28_LeftmostLocalMaximum ==
    [][(call.fn = "timeseries_calc" /\ call.pc = "clip" /\ call'.passes = call.passes + 1) =>
          \E idx \in FallingAboveOne(call.soc) :
              /\ \A j \in FallingAboveOne(call.soc) : idx <= j
              /\ ClippedAt(call.soc, call'.soc, idx)]_vars

\* A pass of the loop has run and left a sample above 1 that is followed by a
\* fall: the trace of that pass had at least two such samples, and the pass took
\* the left one
C28_Witness ==
    /\ call.fn = "timeseries_calc" /\ call.pc = "clip" /\ call.passes >= 1
    /\ FallingAboveOne(call.soc) # {}

(***************************************************************************)
(* Station evaluator and choice functions.                                 *)
(***************************************************************************)
get_missing_energy(events) ==
    SumSeq([k \in DOMAIN events |-> events[k].min_soc * events[k].capacity])

\* Lines 842-876 for one event: (station, E_pot) for each of its trips that arrives
\* at one of its candidate stations, in trip order
EventPotentials(e, socs) ==
    LET pots == [i \in DOMAIN e.trip |->
            LET soc == At(socs[e.vehicle_id], e.trip[i].arrival_time)
                delta_soc_pot == Min2(Min2(SocOne - soc, 0 - e.min_soc),
                                      Min2(soc - e.min_soc, SocOne - 0))
                standing_time_min == StandingTime(e.trip, i)
                energy_charging_potential ==
                    get_delta_soc(SocCurve, soc, standing_time_min) * e.capacity
            IN  [station |-> e.trip[i].arrival_name,
                 E_pot |-> Min2(delta_soc_pot * e.capacity, energy_charging_potential)]]
    IN  SelectSeq(pots, LAMBDA p : p.station \in e.stations)

\* The stations of a list of potentials in the order of their first entry
RECURSIVE FirstSeen(_)
FirstSeen(pots) ==
    IF pots = <<>> THEN <<>>
    ELSE LET before == FirstSeen(SubSeq(pots, 1, Len(pots) - 1))
             st == pots[Len(pots)].station
         IN  IF st \in Range(before) THEN before ELSE Append(before, st)

\* sorted(..., key=pot_sum): stable insertion by pot_sum, ascending
RECURSIVE InsertByPot(_, _)
InsertByPot(l, x) ==
    IF l = <<>> THEN <<x>>
    ELSE IF x.pot_sum < Head(l).pot_sum THEN <<x>> \o l
    ELSE <<Head(l)>> \o InsertByPot(Tail(l), x)

RECURSIVE SortByPot(_)
SortByPot(l) ==
    IF l = <<>> THEN <<>> ELSE InsertByPot(SortByPot(SubSeq(l, 1, Len(l) - 1)), l[Len(l)])

Reverse(l) == [k \in DOMAIN l |-> l[Len(l) + 1 - k]]

\* evaluate(event_group, new_scen, soc_curve_dict): called without a memo, so
\* the branch at lines 880-886 is never taken
evaluate(events, socs) ==
    LET pots == Concat([k \in DOMAIN events |-> EventPotentials(events[k], socs)])
        names == FirstSeen(pots)
        entries == [n \in DOMAIN names |->
                       [station |-> names[n],
                        pot_sum |-> SumSeq([k \in DOMAIN pots |->
                                       IF pots[k].station = names[n] THEN pots[k].E_pot ELSE 0])]]
    IN  Reverse(SortByPot(entries))

\* combination_generator(iterable, amount) as the list of what it yields
RECURSIVE combination_generator(_, _)
combination_generator(iterable, amount) ==
    Concat([i \in DOMAIN iterable |->
        IF amount <= 1 THEN << <<iterable[i]>> >>
        ELSE LET gens == combination_generator(SubSeq(iterable, i + 1, Len(iterable)),
                                               amount - 1)
             IN  [g \in DOMAIN gens |-> <<iterable[i]>> \o gens[g]]])

(***************************************************************************)
(* combination_generator on its own: a list of distinct stations and an    *)
(* amount are given, and the generator is drained one item at a time.      *)
(***************************************************************************)
MaxCombLen == 3

CombInputs == SeqsNoDup({StA, StB, StC, StD}, MaxCombLen)

InitComb ==
    /\ call \in [fn : {"combination_generator"}, pc : {"next"}, iterable : CombInputs,
                 amount : 0..(MaxCombLen + 1), yielded : {<<>>}]
    /\ DriverIdle

\* next(gen): the generator hands out its next combination
CombYield ==
    /\ call.fn = "combination_generator" /\ call.pc = "next"
    /\ Len(call.yielded) < Len(combination_generator(call.iterable, call.amount))
    /\ call' = [call EXCEPT !.yielded =
                   Append(@, combination_generator(call.iterable, call.amount)[Len(@) + 1])]
    /\ UNCHANGED driverVars

\* StopIteration: the generator is exhausted
CombStop ==
    /\ call.fn = "combination_generator" /\ call.pc = "next"
    /\ Len(call.yielded) = Len(combination_generator(call.iterable, call.amount))
    /\ call' = [call EXCEPT !.pc = "done"]
    /\ UNCHANGED driverVars

NextComb == CombYield \/ CombStop

SpecComb == InitComb /\ [][NextComb]_vars

\* The strictly increasing choices of `amount` positions out of 1..n
PositionChoices(n, amount) ==
    {c \in [1..amount -> 1..n] : \A j, k \in 1..amount : j < k => c[j] < c[k]}

PositionOf(iterable, item) == CHOOSE i \in DOMAIN iterable : iterable[i] = item

LexLess(p, q) ==
    \E j \in DOMAIN p : j \in DOMAIN q /\ p[j] < q[j] /\ \A i \in 1..(j - 1) : p[i] = q[i]

\* C20: for a list of n distinct items and 0 <= amount <= n, combination_generator
\* yields exactly the subsets with `amount` elements, each once, as lists in input
\* order and lexicographic by input position; for amount > n it yields nothing.
C20_YieldsExactlySubsets ==
    (call.fn = "combination_generator" /\ call.pc = "done") =>
        LET ys == call.yielded
            choices == PositionChoices(Len(call.iterable), call.amount)
            positions(y) == [j \in DOMAIN y |-> PositionOf(call.iterable, y[j])]
        IN  /\ Range(ys) = {[j \in 1..call.amount |-> call.iterable[c[j]]] : c \in choices}
            /\ Len(ys) = Cardinality(choices)
            /\ \A k, l \in DOMAIN ys : k < l => LexLess(positions(ys[k]), positions(ys[l]))

InTree(tree, stations_set) == HashOfSet(stations_set) \in DOMAIN tree

\* Lines 741-748: the potential of the first delta stations of the ranking
BoundPot(station_eval, delta) ==
    SumSeq([i \in 1..Max2(0, Min2(delta, Len(station_eval))) |-> station_eval[i].pot_sum])

\* Lines 751-764: the first station of the ranking whose extension is not in the
\* memo and that is not electrified; 0 when the loop ends without a return
ScanHit(station_eval, electrified, tree) ==
    LET hits == {k \in DOMAIN station_eval :
                    /\ ~InTree(tree, electrified \cup {station_eval[k].station})
                    /\ station_eval[k].station \notin electrified}
    IN  IF hits = {} THEN 0 ELSE CHOOSE k \in hits : \A j \in hits : k <= j

\* Lines 750-759 when the loop ends: the least visit_counter met, 0 for infinity
MinCountVisited(station_eval, electrified, tree) ==
    LET counts == {tree[HashOfSet(electrified \cup {station_eval[k].station})].visit_counter :
                      k \in {j \in DOMAIN station_eval :
                                InTree(tree, electrified \cup {station_eval[j].station})}}
    IN  IF counts = {} THEN 0 ELSE CHOOSE c \in counts : \A d \in counts : c <= d

\* Lines 765-775: the else branch of the loop. The result is what the function
\* returns: a bare list, None, or the KeyError of the memo lookup.
LeastVisited(station_eval, electrified, tree) ==
    LET min_count_visited == MinCountVisited(station_eval, electrified, tree)
        \* the stations looked at before the loop returns or raises
        stop == {k \in DOMAIN station_eval :
                    \/ ~InTree(tree, electrified \cup {station_eval[k].station})
                    \/ tree[HashOfSet(electrified \cup {station_eval[k].station})].visit_counter
                           = min_count_visited}
    IN  IF stop = {} THEN [shape |-> "None"]
        ELSE LET k == CHOOSE k \in stop : \A j \in stop : k <= j
             IN  IF ~InTree(tree, electrified \cup {station_eval[k].station})
                 THEN [shape |-> "KeyError"]
                 ELSE [shape |-> "list", ids |-> <<station_eval[k].station>>]

\* choose_station_step_by_step; pre_opt is None or holds a set. shape "pair" is a
\* (best_station_ids, recursive) tuple.
choose_station_step_by_step(station_eval, electrified, pre_opt, tree, missing_energy) ==
    IF pre_opt # None
       /\ BoundPot(station_eval, Cardinality(pre_opt[1]) - Cardinality(electrified))
              <= -missing_energy
    THEN [shape |-> "pair", ids |-> None, recursive |-> FALSE]
    ELSE IF ScanHit(station_eval, electrified, tree) # 0
    THEN [shape |-> "pair",
          ids |-> <<station_eval[ScanHit(station_eval, electrified, tree)].station>>,
          recursive |-> TRUE]
    ELSE LeastVisited(station_eval, electrified, tree)

\* choose_station_brute: the first combination that is not in the memo and whose
\* potential exceeds 80 % of the missing energy
choose_station_brute(station_eval, electrified, pre_opt, tree, missing_energy) ==
    IF pre_opt = None THEN [shape |-> "TypeError"]
    ELSE LET station_ids == [k \in DOMAIN station_eval |-> station_eval[k].station]
             combs == combination_generator(station_ids, Cardinality(pre_opt[1]))
             pot(comb) == SumSeq([j \in DOMAIN comb |->
                             station_eval[CHOOSE k \in DOMAIN station_eval :
                                 station_eval[k].station = comb[j]].pot_sum])
             hits == {c \in DOMAIN combs :
                         /\ stations_hash(combs[c]) \notin DOMAIN tree
                         /\ pot(combs[c]) * 10 > (-missing_energy) * 8}
         IN  IF hits = {} THEN [shape |-> "pair", ids |-> None, recursive |-> FALSE]
             ELSE [shape |-> "pair",
                   ids |-> combs[CHOOSE c \in hits : \A d \in hits : c <= d],
                   recursive |-> FALSE]

(***************************************************************************)
(* choose_station_step_by_step on its own, statement by statement: the     *)
(* ranking is what evaluate returns (sorted by falling pot_sum), the memo  *)
(* holds some of the extensions of the electrified set, and the missing    *)
(* energy is negative, as line 409 lets no other value through.            *)
(***************************************************************************)
MaxEvalLen == 2

MaxPot == 2

\* Rankings of up to MaxEvalLen stations, sorted by falling pot_sum
StationEvals ==
    {ev \in UNION {[1..n -> [station : {StA, StB, StC}, pot_sum : 0..MaxPot]] : n \in 0..MaxEvalLen} :
        /\ \A k, l \in DOMAIN ev : k < l =>
              ev[k].station # ev[l].station /\ ev[k].pot_sum >= ev[l].pot_sum}

\* Memos that hold some of the sets one station larger than or equal to the
\* electrified set
MemosFor(electrified) ==
    LET keys == {HashOfSet(electrified \cup {st}) : st \in {StA, StB, StC}}
    IN  UNION {[ks -> [missing_energy : {-1}, visit_counter : {1, 2}]] : ks \in SUBSET keys}

InitChoose ==
    /\ \E station_eval \in StationEvals, electrified \in {{}, {StA}, {StD}},
          pre_opt \in {None, <<{}>>, <<{StA}>>, <<{StA, StB}>>, <<{StA, StB, StD}>>},
          missing_energy \in {-1, -3} :
          \E tree \in MemosFor(electrified) :
             call = [fn |-> "choose_station_step_by_step", pc |-> "prune",
                     station_eval |-> station_eval, electrified_station_set |-> electrified,
                     pre_optimized_set |-> pre_opt, decision_tree |-> tree,
                     missing_energy |-> missing_energy,
                     k |-> 0, min_count_visited |-> 0, result |-> None]
    /\ DriverIdle

\* Line 746 with < for <=
PruneTestStrict(pot, missing_energy) == pot < -missing_energy

\* Line 746: if pot <= -missing_energy
PruneTest(pot, missing_energy) == pot <= -missing_energy

\* Line 757 never true: no extension counts as visited
InKeysNever(tree, node_name) == FALSE

\* Line 757: if node_name in decision_tree.keys()
InKeys(tree, node_name) == node_name \in DOMAIN tree

\* Line 753/769: stations_hash(electrified_station_set.union([station[0]]))
NodeNameAt(c, k) == HashOfSet(c.electrified_station_set \cup {c.station_eval[k].station})

\* Lines 741-750: the bound against the pre-optimized set; min_count_visited
\* is float('inf'), written 0 here (a visit_counter is at least 1)
ChoosePrune ==
    /\ call.fn = "choose_station_step_by_step" /\ call.pc = "prune"
    /\ IF call.pre_optimized_set # None
          /\ PruneTest(BoundPot(call.station_eval,
                                Cardinality(call.pre_optimized_set[1])
                                   - Cardinality(call.electrified_station_set)),
                       call.missing_energy)
       THEN call' = [call EXCEPT !.pc = "done",
                        !.result = [shape |-> "pair", ids |-> None, recursive |-> FALSE]]
       ELSE call' = [call EXCEPT !.pc = "scan", !.k = 1]
    /\ UNCHANGED driverVars

\* Lines 751-764: one turn of the loop over the ranking
ChooseScan ==
    /\ call.fn = "choose_station_step_by_step" /\ call.pc = "scan"
    /\ call.k <= Len(call.station_eval)
    /\ IF InKeys(call.decision_tree, NodeNameAt(call, call.k))
       THEN call' = [call EXCEPT !.k = @ + 1,
                        !.min_count_visited =
                            LET c == call.decision_tree[NodeNameAt(call, call.k)].visit_counter
                            IN  IF @ = 0 THEN c ELSE Min2(@, c)]
       ELSE IF call.station_eval[call.k].station \notin call.electrified_station_set
       THEN call' = [call EXCEPT !.pc = "done",
                        !.result = [shape |-> "pair",
                                    ids |-> <<call.station_eval[call.k].station>>,
                                    recursive |-> TRUE]]
       ELSE call' = [call EXCEPT !.k = @ + 1]
    /\ UNCHANGED driverVars

\* Line 765: the loop ended without a return, its else branch starts
ChooseScanEnd ==
    /\ call.fn = "choose_station_step_by_step" /\ call.pc = "scan"
    /\ call.k > Len(call.station_eval)
    /\ call' = [call EXCEPT !.pc = "fallback", !.k = 1]
    /\ UNCHANGED driverVars

\* Lines 769-774: one turn of the loop that looks for the least visited node
ChooseFallback ==
    /\ call.fn = "choose_station_step_by_step" /\ call.pc = "fallback"
    /\ call.k <= Len(call.station_eval)
    /\ IF NodeNameAt(call, call.k) \notin DOMAIN call.decision_tree
       THEN call' = [call EXCEPT !.pc = "done", !.result = [shape |-> "KeyError"]]
       ELSE IF call.decision_tree[NodeNameAt(call, call.k)].visit_counter
                  = call.min_count_visited
       THEN call' = [call EXCEPT !.pc = "done",
                        !.result = [shape |-> "list",
                                    ids |-> <<call.station_eval[call.k].station>>]]
       ELSE call' = [call EXCEPT !.k = @ + 1]
    /\ UNCHANGED driverVars

\* Line 775: return None
ChooseFallbackEnd ==
    /\ call.fn = "choose_station_step_by_step" /\ call.pc = "fallback"
    /\ call.k > Len(call.station_eval)
    /\ call' = [call EXCEPT !.pc = "done", !.result = [shape |-> "None"]]
    /\ UNCHANGED driverVars

NextChoose ==
    ChoosePrune \/ ChooseScan \/ ChooseScanEnd \/ ChooseFallback \/ ChooseFallbackEnd

SpecChoose == InitChoose /\ [][NextChoose]_vars

\* The sum of the pot_sums of the top D ranked stations, D = |pre_optimized_set| -
\* |electrified|: 0 when D <= 0, all stations when D exceeds their number
TopPotential ==
    LET D == Cardinality(call.pre_optimized_set[1]) - Cardinality(call.electrified_station_set)
    IN  SumSeq([k \in DOMAIN call.station_eval |->
                   IF k <= D THEN call.station_eval[k].pot_sum ELSE 0])

BoundPruneFires ==
    call.pre_optimized_set # None /\ TopPotential <= -call.missing_energy

\* The positions of the ranking whose station is not electrified and whose
\* extension of the electrified set is not a key of the memo
Unvisited ==
    {k \in DOMAIN call.station_eval :
        /\ call.station_eval[k].station \notin call.electrified_station_set
        /\ HashOfSet(call.electrified_station_set \cup {call.station_eval[k].station})
              \notin DOMAIN call.decision_tree}

\* C21: when the bound prune does not fire, choose_station_step_by_step returns,
\* with recursive = true, the first station in ranked order that is not electrified
\* and whose extension of the electrified set is not a key of the memo; with an
\* empty memo no station that is not electrified has a higher pot_sum.
C21_FirstUnvisitedStation ==
    (call.pc = "done" /\ ~BoundPruneFires /\ Unvisited # {}) =>
        /\ call.result.shape = "pair"
        /\ call.result.recursive = TRUE
        /\ \E k \in Unvisited :
              /\ \A j \in Unvisited : k <= j
              /\ call.result.ids = <<call.station_eval[k].station>>
              /\ DOMAIN call.decision_tree = {} =>
                    \A j \in DOMAIN call.station_eval :
                        call.station_eval[j].station \notin call.electrified_station_set
                            => call.station_eval[j].pot_sum <= call.station_eval[k].pot_sum

\* A return of the second ranked station, the first being skipped as visited
C21_Witness ==
    /\ call.fn = "choose_station_step_by_step" /\ call.pc = "done"
    /\ ~BoundPruneFires
    /\ Unvisited # {} /\ 1 \notin Unvisited
    /\ call.result.shape = "pair" /\ call.result.recursive = TRUE

\* C23: with a pre_optimized_set, choose_station_step_by_step returns null exactly
\* when the sum of the pot_sums of the top D ranked stations is less than or equal
\* to the negated missing energy; otherwise it goes on to scan the ranked list.
C23_BoundPrune ==
    /\ [](call.pc = "done" /\ call.pre_optimized_set # None =>
            ((call.result.shape = "None"
                 \/ (call.result.shape = "pair" /\ call.result.ids = None))
               <=> TopPotential <= -call.missing_energy))
    /\ [][(call.pc = "prune" /\ call.pre_optimized_set # None) =>
             IF TopPotential <= -call.missing_energy
             THEN call'.pc = "done" /\ call'.result.ids = None
             ELSE call'.pc = "scan" /\ call'.k = 1]_vars

\* The potential of the top stations equals the negated missing energy: the
\* boundary case of the prune
C23_Witness ==
    /\ call.fn = "choose_station_step_by_step" /\ call.pc = "done"
    /\ call.pre_optimized_set # None
    /\ Cardinality(call.pre_optimized_set[1]) - Cardinality(call.electrified_station_set) = 1
    /\ Len(call.station_eval) = 2
    /\ TopPotential = -call.missing_energy
    /\ call.result.shape = "pair" /\ call.result.ids = None

\* Every station of the ranking extends the electrified set to a set that is a key
\* of the memo
AllExtensionsVisited ==
    /\ call.station_eval # <<>>
    /\ \A k \in DOMAIN call.station_eval :
          HashOfSet(call.electrified_station_set \cup {call.station_eval[k].station})
              \in DOMAIN call.decision_tree

\* C22: when every extension of the ranked stations is already a key of the memo,
\* choose_station_step_by_step returns the extension with the least visit_counter
\* in the (station ids, recursive flag) form of its other results.
C22_LeastVisitedAsPair ==
    (call.pc = "done" /\ ~BoundPruneFires /\ AllExtensionsVisited) =>
        /\ call.result.shape = "pair"
        /\ \E k \in DOMAIN call.station_eval :
              /\ call.result.ids = <<call.station_eval[k].station>>
              /\ \A j \in DOMAIN call.station_eval :
                    call.decision_tree[NodeNameAt(call, k)].visit_counter
                       <= call.decision_tree[NodeNameAt(call, j)].visit_counter

\* electrify_station on the map; the set gains the station as well
OppsEntry == [type |-> "opps", n_charging_stations |-> 200]

ElectrifyMap(stations, new) ==
    [st \in DOMAIN stations \cup new |-> IF st \in new THEN OppsEntry ELSE stations[st]]

\* electrified_set.add replaced by an assignment
ElectrifySetOnly(set, new) == new

ElectrifySet(set, new) == set \cup new

\* Lines 429-434 without the loop of lines 436-437
RollbackSetEmptied(set, pre_opt) == set \ set

\* Lines 429-437 on the set: every member is removed, then the members of the
\* pre-optimized set are added
RollbackSet(set, pre_opt) == (set \ set) \cup pre_opt

\* dict.pop of each given key
PopAll(stations, gone) == [st \in DOMAIN stations \ gone |-> stations[st]]

(***************************************************************************)
(* The search driver: main without rebasing, optimization_loop and the     *)
(* recursion of group_optimization_quick. Every activation of              *)
(* group_optimization_quick is a frame of stack; a frame names the objects *)
(* it was handed (target) and keeps its locals.                            *)
(***************************************************************************)
NotPossible == cfg.inclusion \cup cfg.exclusion

Top == stack[Len(stack)]

Pop == SubSeq(stack, 1, Len(stack) - 1)

\* The set, and the could_not_be_electrified set, a frame was handed: those of
\* the greedy pass or those of one iteration of the deep loop
TargetSet(f) == IF f.target = "deep" THEN new_electrified_set ELSE electrified_station_set

TargetCnbe(f) == IF f.target = "deep" THEN cnbe_copy ELSE could_not_be_electrified

WriteBack(f, set, map, cnbe) ==
    /\ electrified_stations' = map
    /\ IF f.target = "deep"
       THEN /\ new_electrified_set' = set
            /\ cnbe_copy' = cnbe
            /\ UNCHANGED <<electrified_station_set, could_not_be_electrified>>
       ELSE /\ electrified_station_set' = set
            /\ could_not_be_electrified' = cnbe
            /\ UNCHANGED <<new_electrified_set, cnbe_copy>>

\* A call of group_optimization_quick: lines 390-394 and 399-401
Frame(group, lifted, base_group, nps, choose, pre_opt, target, set, map) ==
    [group |-> group, lifted_socs |-> lifted, base_group |-> base_group, nps |-> nps,
     choose |-> choose, pre_opt |-> pre_opt, target |-> target, pc |-> "entry",
     subgroups |-> <<>>, idx |-> 0, recursive |-> FALSE,
     entry_set |-> set, entry_map |-> map]

FrameSocs(f) == IF f.lifted_socs = None THEN base_socs ELSE f.lifted_socs

RotationIds(events) == {events[k].rotation : k \in DOMAIN events}

Candidates(events) == UNION {events[k].stations : k \in DOMAIN events}

\* Lines 413-422: the ranking and the answer of the choice function
Choice(f) ==
    LET station_eval == evaluate(f.group.events, FrameSocs(f))
        missing_energy == get_missing_energy(f.group.events)
    IN  IF f.choose = "brute"
        THEN choose_station_brute(station_eval, TargetSet(f), f.pre_opt, decision_tree,
                                  missing_energy)
        ELSE choose_station_step_by_step(station_eval, TargetSet(f), f.pre_opt,
                                         decision_tree, missing_energy)

\* Line 409 with > for >=
AlreadyElectrifiedStrict(f) == get_missing_energy(f.group.events) > 0

\* Line 409: nothing is missing
AlreadyElectrified(f) == get_missing_energy(f.group.events) >= 0

AtEntry == stack # <<>> /\ Top.pc = "entry" /\ pc \in {"greedy", "deep_call"}

\* What a call returns for the map: the map it was handed, or None
electrified_stations_ref == <<"electrified_stations">>

Return(stations, flag) ==
    /\ stack' = Pop
    /\ ret' = [stations |-> stations, flag |-> flag]

\* Lines 406-411: nothing is missing
QuickAlreadyElectrified ==
    /\ AtEntry
    /\ AlreadyElectrified(Top)
    /\ Return(electrified_stations_ref, TRUE)
    /\ UNCHANGED <<call, pc, cfg, ele_stations, ele_station_set, base_socs, groups, group_nr,
                   electrified_stations, electrified_station_set, new_electrified_set,
                   could_not_be_electrified, cnbe_copy, default_cnbe, decision_tree,
                   pre_optimized_set, list_greedy_sets, deep_i, cont_loop, sols,
                   events_seen, returned>>

\* Lines 420-440: no station comes out of the choice. The choice function
\* raises, or what it returns cannot be unpacked into (best_station_ids,
\* recursive); or it returns None for the stations, and then the set is
\* overwritten with the pre-optimized set if there is one, and the rotations of
\* the group are given up if there is none.
QuickNoChoice ==
    /\ AtEntry
    /\ ~AlreadyElectrified(Top)
    /\ Choice(Top).shape # "pair" \/ Choice(Top).ids = None
    /\ IF Choice(Top).shape # "pair"
       THEN /\ pc' = "raised"
            /\ ret' = [error |-> CASE Choice(Top).shape = "list" -> "ValueError"
                                   [] Choice(Top).shape = "None" -> "TypeError"
                                   [] OTHER -> Choice(Top).shape,
                       line |-> 420]
            /\ UNCHANGED <<stack, electrified_stations, electrified_station_set,
                           new_electrified_set, could_not_be_electrified, cnbe_copy>>
       ELSE IF Top.pre_opt = None
       THEN /\ WriteBack(Top, TargetSet(Top), electrified_stations,
                         TargetCnbe(Top) \cup RotationIds(Top.group.events))
            /\ Return(None, FALSE)
            /\ UNCHANGED pc
       ELSE IF TargetSet(Top) \subseteq DOMAIN electrified_stations
       THEN /\ WriteBack(Top, RollbackSet(TargetSet(Top), Top.pre_opt[1]),
                         ElectrifyMap(PopAll(electrified_stations, TargetSet(Top)),
                                      Top.pre_opt[1]),
                         TargetCnbe(Top))
            /\ Return(None, FALSE)
            /\ UNCHANGED pc
       ELSE /\ pc' = "raised"
            /\ ret' = [error |-> "KeyError", line |-> 433]
            /\ UNCHANGED <<stack, electrified_stations, electrified_station_set,
                           new_electrified_set, could_not_be_electrified, cnbe_copy>>
    /\ UNCHANGED <<call, cfg, ele_stations, ele_station_set, base_socs, groups, group_nr,
                   default_cnbe, decision_tree, pre_optimized_set, list_greedy_sets, deep_i,
                   cont_loop, sols, events_seen, returned>>

\* Lines 488-497: the memo entry of the electrified set
Memo(tree, node_name, delta_base_energy) ==
    [k \in DOMAIN tree \cup {node_name} |->
        IF k = node_name
        THEN [missing_energy |-> delta_base_energy,
              visit_counter |-> IF node_name \in DOMAIN tree
                                THEN tree[node_name].visit_counter + 1 ELSE 1]
        ELSE tree[k]]

(***************************************************************************)
(* The memo update of lines 488-497 on its own, statement by statement,    *)
(* for a sequence of electrification steps that starts with the empty memo *)
(* of line 227.                                                            *)
(***************************************************************************)
MaxMemoSteps == 3

\* The electrified sets and the missing energies a step can observe
MemoSets == SUBSET {StA, StB}

MemoEnergies == {-2, -1, 0}

InitMemo ==
    /\ \E electrified \in MemoSets, delta_base_energy \in MemoEnergies :
          call = [fn |-> "memo", pc |-> "try", decision_tree |-> <<>>, before |-> <<>>,
                  node_name |-> HashOfSet(electrified),
                  delta_base_energy |-> delta_base_energy, steps |-> 1]
    /\ DriverIdle

\* Line 492 without the addition
SameVisitCounter(visit_counter) == visit_counter

\* Line 492: decision_tree[node_name]["visit_counter"] += 1
NextVisitCounter(visit_counter) == visit_counter + 1

\* Line 491: decision_tree[node_name]["missing_energy"] = delta_base_energy; the
\* lookup of a missing node raises KeyError
MemoTry ==
    /\ call.fn = "memo" /\ call.pc = "try"
    /\ IF call.node_name \in DOMAIN call.decision_tree
       THEN call' = [call EXCEPT !.pc = "count",
                        !.decision_tree[call.node_name].missing_energy = call.delta_base_energy]
       ELSE call' = [call EXCEPT !.pc = "except"]
    /\ UNCHANGED driverVars

\* Lines 492-493
MemoCount ==
    /\ call.fn = "memo" /\ call.pc = "count"
    /\ call' = [call EXCEPT !.pc = "done",
                   !.decision_tree[call.node_name].visit_counter = NextVisitCounter(@)]
    /\ UNCHANGED driverVars

\* Lines 494-497: except KeyError, the node is created
MemoExcept ==
    /\ call.fn = "memo" /\ call.pc = "except"
    /\ call' = [call EXCEPT !.pc = "done",
                   !.decision_tree =
                       [n \in DOMAIN @ \cup {call.node_name} |->
                           IF n = call.node_name
                           THEN [missing_energy |-> call.delta_base_energy, visit_counter |-> 1]
                           ELSE @[n]]]
    /\ UNCHANGED driverVars

\* The next electrification step reaches lines 488-490 with its electrified set
MemoNextStep ==
    /\ call.fn = "memo" /\ call.pc = "done"
    /\ call.steps < MaxMemoSteps
    /\ \E electrified \in MemoSets, delta_base_energy \in MemoEnergies :
          call' = [call EXCEPT !.pc = "try", !.before = call.decision_tree,
                      !.node_name = HashOfSet(electrified),
                      !.delta_base_energy = delta_base_energy, !.steps = @ + 1]
    /\ UNCHANGED driverVars

NextMemo == MemoTry \/ MemoCount \/ MemoExcept \/ MemoNextStep

SpecMemo == InitMemo /\ [][NextMemo]_vars

\* C26: after any sequence of electrification steps every node of the memo has
\* visit_counter >= 1; a step that reaches a new fingerprint creates its node with
\* visit_counter 1, a step that reaches an existing fingerprint adds exactly 1 to
\* its visit_counter, in both cases missing_energy holds the value observed in
\* that step, and no other node changes.
C26_MemoCountsVisits ==
    /\ \A n \in DOMAIN call.decision_tree : call.decision_tree[n].visit_counter >= 1
    /\ call.pc = "done" =>
          /\ DOMAIN call.decision_tree = DOMAIN call.before \cup {call.node_name}
          /\ call.decision_tree[call.node_name].missing_energy = call.delta_base_energy
          /\ call.decision_tree[call.node_name].visit_counter =
                IF call.node_name \in DOMAIN call.before
                THEN call.before[call.node_name].visit_counter + 1 ELSE 1
          /\ \A n \in DOMAIN call.before \ {call.node_name} :
                call.decision_tree[n] = call.before[n]

\* The third step reaches the fingerprint of the first two again, with another
\* missing energy
C26_Witness ==
    /\ call.fn = "memo" /\ call.pc = "done"
    /\ call.node_name \in DOMAIN call.before
    /\ call.before[call.node_name].visit_counter = 2
    /\ call.before[call.node_name].missing_energy # call.delta_base_energy
    /\ call.decision_tree[call.node_name].visit_counter = 3
    /\ Cardinality(DOMAIN call.decision_tree) = 1

Seen(kind, stations_set) == {<<kind, st>> : st \in stations_set}

\* Lines 442-464: the chosen stations are electrified and the traces of the
\* rotations of the base group recomputed from the baseline
Electrified(f, best_station_ids) ==
    LET set == ElectrifySet(TargetSet(f), Range(best_station_ids))
        map == ElectrifyMap(electrified_stations, Range(best_station_ids))
    IN  [set |-> set, map |-> map,
         lifted_socs |-> timeseries_calc(best_station_ids[1], RotationIds(f.base_group),
                                         base_socs, set, cfg.rots),
         not_possible_stations |-> DOMAIN map \cup f.nps]

\* Lines 465-492: the events of the group and of the base group on the
\* recomputed traces; the rotations of the group are walked in some order
Extracted(f, e, event_rotations) ==
    [new |-> get_below_zero_soc_events(e.lifted_socs, event_rotations, cfg.rots, SocOne, 0,
                                       TRUE, e.not_possible_stations),
     base |-> get_below_zero_soc_events(e.lifted_socs, ListOf(RotationIds(f.base_group)),
                                        cfg.rots, SocOne, 0, TRUE, {})]

\* Lines 465-521 up to the first recursive call: an extraction raises, or the
\* memo is updated and the call returns or starts to walk the groups of what is
\* left
QuickOutcome(f, choice, e, x) ==
    IF x.new.error \/ x.base.error
    THEN /\ pc' = "raised"
         /\ ret' = [error |-> "ValueError", line |-> IF x.new.error THEN 466 ELSE 476]
         /\ WriteBack(f, e.set, e.map, TargetCnbe(f))
         /\ events_seen' = events_seen \cup Seen("chosen", Range(choice.ids))
         /\ UNCHANGED <<stack, decision_tree>>
    ELSE /\ decision_tree' = Memo(decision_tree, HashOfSet(e.set),
                                  get_missing_energy(x.base.events))
         /\ events_seen' = events_seen \cup Seen("chosen", Range(choice.ids))
                             \cup Seen("candidate", Candidates(x.new.events))
                             \cup Seen("base_candidate", Candidates(x.base.events))
         /\ UNCHANGED pc
         /\ IF get_missing_energy(x.new.events) >= 0
            THEN /\ WriteBack(f, e.set, e.map, TargetCnbe(f))
                 /\ Return(electrified_stations_ref, TRUE)
            ELSE IF ~choice.recursive
            THEN /\ WriteBack(f, e.set, e.map, TargetCnbe(f))
                 /\ Return(None, TRUE)
            ELSE \E pick \in PickFns(x.new.events) :
                 LET split == get_groups_from_events(x.new.events, e.not_possible_stations,
                                                     TargetCnbe(f), pick)
                 IN  /\ WriteBack(f, e.set, e.map, split.cnbe)
                     /\ stack' = [stack EXCEPT ![Len(stack)] =
                            [f EXCEPT !.pc = "loop", !.subgroups = split.groups, !.idx = 1,
                                      !.lifted_socs = e.lifted_socs,
                                      !.nps = e.not_possible_stations, !.recursive = TRUE]]
                     /\ UNCHANGED ret

QuickExtract(f, choice, e) ==
    \E event_rotations \in Perms(RotationIds(f.group.events)) :
        QuickOutcome(f, choice, e, Extracted(f, e, event_rotations))

QuickKernel(f, choice) == QuickExtract(f, choice, Electrified(f, choice.ids))

\* The kernel handed the dictionary of the baseline itself
AliasOf(soc_dict) == soc_dict

\* Line 454: deepcopy(base_scen.vehicle_socs), a new dictionary with new arrays,
\* which new_scen holds
DeepcopyOf(soc_dict) == "new_scen.vehicle_socs"

\* Lines 787-826: timeseries_calc copies the dictionary it is handed but writes
\* into its arrays; what the arrays of the baseline hold once the traces
\* lifted_socs were computed in the arrays of soc_dict
WrittenBaseline(soc_dict, lifted_socs) ==
    IF soc_dict = "base_scen.vehicle_socs" THEN lifted_socs ELSE base_socs

\* Lines 440-521 up to the first recursive call: a choice was made
QuickElectrify ==
    /\ AtEntry
    /\ ~AlreadyElectrified(Top)
    /\ Choice(Top).shape = "pair" /\ Choice(Top).ids # None
    /\ QuickKernel(Top, Choice(Top))
    /\ base_socs' = WrittenBaseline(DeepcopyOf("base_scen.vehicle_socs"),
                                    Electrified(Top, Choice(Top).ids).lifted_socs)
    /\ UNCHANGED <<call, cfg, ele_stations, ele_station_set, groups, group_nr,
                   default_cnbe, pre_optimized_set, list_greedy_sets, deep_i, cont_loop, sols,
                   returned>>

DriverQuiet ==
    UNCHANGED <<call, pc, cfg, ele_stations, ele_station_set, base_socs, groups, group_nr,
                electrified_stations, electrified_station_set, new_electrified_set,
                could_not_be_electrified, cnbe_copy, default_cnbe, decision_tree,
                pre_optimized_set, list_greedy_sets, deep_i, cont_loop, sols, events_seen,
                returned>>

\* Lines 510-518: the recursive call for the next group
QuickRecurse ==
    /\ stack # <<>> /\ Top.pc = "loop" /\ pc \in {"greedy", "deep_call"}
    /\ Top.idx <= Len(Top.subgroups)
    /\ stack' = Append([stack EXCEPT ![Len(stack)] = [Top EXCEPT !.pc = "await"]],
                       Frame(Top.subgroups[Top.idx], Top.lifted_socs, Top.base_group, Top.nps,
                             Top.choose, Top.pre_opt, Top.target, TargetSet(Top),
                             electrified_stations))
    /\ UNCHANGED ret
    /\ DriverQuiet

\* Line 519: electrified_stations.update(new_stations) with what the call
\* returned; the map itself leaves it as it is, None raises
QuickUpdate ==
    /\ stack # <<>> /\ Top.pc = "await" /\ pc \in {"greedy", "deep_call"}
    /\ IF ret.stations = None
       THEN /\ pc' = "raised"
            /\ ret' = [error |-> "TypeError", line |-> 519]
            /\ UNCHANGED stack
       ELSE /\ stack' = [stack EXCEPT ![Len(stack)] =
                            [Top EXCEPT !.pc = "loop", !.idx = @ + 1]]
            /\ UNCHANGED <<pc, ret>>
    /\ UNCHANGED <<call, cfg, ele_stations, ele_station_set, base_socs, groups, group_nr,
                   electrified_stations, electrified_station_set, new_electrified_set,
                   could_not_be_electrified, cnbe_copy, default_cnbe, decision_tree,
                   pre_optimized_set, list_greedy_sets, deep_i, cont_loop, sols, events_seen,
                   returned>>

\* Line 521: all groups were walked
QuickReturn ==
    /\ stack # <<>> /\ Top.pc = "loop" /\ pc \in {"greedy", "deep_call"}
    /\ Top.idx > Len(Top.subgroups)
    /\ Return(electrified_stations_ref, TRUE)
    /\ DriverQuiet

\* config.max_brute_loop
MaxBruteLoop == 2

(***************************************************************************)
(* choose_station_brute on its own, turn by turn of its loop, called once  *)
(* per iteration of the deep loop of one group: between two calls          *)
(* group_optimization_quick electrifies the returned combination in the    *)
(* empty set of the iteration and writes the memo entry of that set.       *)
(***************************************************************************)
\* Memos over the sets of stations of a ranking
BruteMemosFor(station_eval) ==
    LET keys == {HashOfSet(S) : S \in SUBSET {station_eval[k].station : k \in DOMAIN station_eval}
                                          \ {{}}}
    IN  UNION {[ks -> [missing_energy : {-1}, visit_counter : {1}]] : ks \in SUBSET keys}

InitBrute ==
    /\ \E station_eval \in StationEvals,
          pre_opt \in {<<{}>>, <<{StA}>>, <<{StA, StB}>>, <<{StA, StB, StD}>>},
          missing_energy \in {-1, -3} :
          \E tree \in BruteMemosFor(station_eval) :
             call = [fn |-> "choose_station_brute", pc |-> "loop",
                     station_eval |-> station_eval, pre_optimized_set |-> pre_opt,
                     decision_tree |-> tree, missing_energy |-> missing_energy,
                     k |-> 1, result |-> None, comb_history |-> <<>>]
    /\ DriverIdle

\* Line 716: if node_name not in decision_tree
NotInTree(tree, node_name) == node_name \notin DOMAIN tree

\* Lines 712-713: the combinations in the order the generator yields them
BruteCombinations(c) ==
    combination_generator([k \in DOMAIN c.station_eval |-> c.station_eval[k].station],
                          Cardinality(c.pre_optimized_set[1]))

\* Line 720: the summed pot_sum of the stations of a combination
BrutePotential(c, comb) ==
    SumSeq([j \in DOMAIN comb |->
               c.station_eval[CHOOSE k \in DOMAIN c.station_eval :
                                  c.station_eval[k].station = comb[j]].pot_sum])

\* Lines 714-725: one turn of the loop over the combinations; 0.8 is 8/10
BruteTurn ==
    /\ call.fn = "choose_station_brute" /\ call.pc = "loop"
    /\ call.k <= Len(BruteCombinations(call))
    /\ LET comb == BruteCombinations(call)[call.k]
       IN  IF /\ NotInTree(call.decision_tree, stations_hash(comb))
              /\ BrutePotential(call, comb) * 10 > (-call.missing_energy) * 8
           THEN call' = [call EXCEPT !.pc = "done",
                            !.result = [shape |-> "pair", ids |-> comb, recursive |-> FALSE]]
           ELSE call' = [call EXCEPT !.k = @ + 1]
    /\ UNCHANGED driverVars

\* Lines 727-729: the generator is exhausted
BruteEnd ==
    /\ call.fn = "choose_station_brute" /\ call.pc = "loop"
    /\ call.k > Len(BruteCombinations(call))
    /\ call' = [call EXCEPT !.pc = "done",
                   !.result = [shape |-> "pair", ids |-> None, recursive |-> FALSE]]
    /\ UNCHANGED driverVars

\* Lines 442-505 and 304-324: the returned combination is electrified in the
\* empty set of the deep iteration, the memo entry of that set is written, and
\* the next iteration of the deep loop calls the choice function again
BruteNextIteration ==
    /\ call.fn = "choose_station_brute" /\ call.pc = "done"
    /\ call.result.ids # None
    /\ Len(call.comb_history) + 1 < MaxBruteLoop
    /\ \E delta_base_energy \in {-1, 0} :
          call' = [call EXCEPT
                      !.decision_tree = Memo(@, HashOfSet(ElectrifySet({}, Range(call.result.ids))),
                                             delta_base_energy),
                      !.comb_history = Append(@, call.result.ids),
                      !.pc = "loop", !.k = 1, !.result = None]
    /\ UNCHANGED driverVars

NextBrute == BruteTurn \/ BruteEnd \/ BruteNextIteration

SpecBrute == InitBrute /\ [][NextBrute]_vars

\* The positions, in enumeration order, of the combinations whose fingerprint is
\* not a key of the memo and whose summed pot_sum exceeds 0.8 times the absolute
\* missing energy
Qualifying ==
    {k \in DOMAIN BruteCombinations(call) :
        /\ stations_hash(BruteCombinations(call)[k]) \notin DOMAIN call.decision_tree
        /\ 10 * BrutePotential(call, BruteCombinations(call)[k]) > 8 * (-call.missing_energy)}

\* C24: choose_station_brute returns, with recursive = false, the first combination
\* of |pre_optimized_set| ranked stations, in enumeration order, whose fingerprint is
\* not a key of the memo and whose summed pot_sum is greater than 0.8 times the
\* absolute missing energy, and null when no combination qualifies; across the
\* iterations of the deep loop of one group it never returns the same combination
\* twice.
C24_BruteFirstQualifying ==
    (call.pc = "done") =>
        /\ call.result.shape = "pair" /\ call.result.recursive = FALSE
        /\ IF Qualifying = {} THEN call.result.ids = None
           ELSE /\ \E k \in Qualifying :
                      /\ \A j \in Qualifying : k <= j
                      /\ call.result.ids = BruteCombinations(call)[k]
                /\ Len(call.result.ids) = Cardinality(call.pre_optimized_set[1])
                /\ \A n \in DOMAIN call.comb_history :
                      Range(call.comb_history[n]) # Range(call.result.ids)

(***************************************************************************)
(* main and optimization_loop. base_stations and                           *)
(* base_electrified_station_set are copies of what main hands over, which  *)
(* main does not touch before optimization_loop returns.                   *)
(***************************************************************************)
\* Line 165: while True and i < 2
MaxPasses == 2

\* Line 230 without the copy of the given set
base_electrified_station_set_empty == {}

\* Lines 229-230: the map and the set optimization_loop is given
base_stations == ele_stations

base_electrified_station_set == ele_station_set

\* Lines 132 and 143-150: the stations file is loaded and the inclusion
\* stations are electrified; the rebasing path is not taken
MainElectrifyInclusion ==
    /\ pc = "main"
    /\ ele_stations' = ElectrifyMap(cfg.file, cfg.inclusion)
    /\ ele_station_set' = cfg.inclusion
    /\ pc' = "optimization_loop"
    /\ UNCHANGED <<call, cfg, base_socs, groups, group_nr, electrified_stations,
                   electrified_station_set, new_electrified_set, could_not_be_electrified,
                   cnbe_copy, default_cnbe, decision_tree, pre_optimized_set,
                   list_greedy_sets, deep_i, cont_loop, sols, stack, ret, events_seen,
                   returned>>

\* Lines 225-265: the events of the baseline and their groups. main passes no
\* pre_optimized_set and no decision_tree: the first is None, the second is the
\* dictionary of the default argument. The grouper is called without a
\* could_not_be_electrified set and fills the set of its default argument.
OptimizationLoopStart ==
    /\ pc = "optimization_loop"
    /\ LET ex == get_below_zero_soc_events(call.new_scen, call.new_sched, cfg.rots,
                     SocUpperBase, 0, FALSE, NotPossible)
       IN  IF ex.error
           THEN /\ pc' = "raised"
                /\ ret' = [error |-> "ValueError", line |-> 253]
                /\ UNCHANGED <<groups, default_cnbe, list_greedy_sets, events_seen>>
           ELSE \E pick \in PickFns(ex.events) :
                LET split == get_groups_from_events(ex.events, NotPossible, default_cnbe,
                                                    pick)
                IN  /\ groups' = split.groups
                    /\ default_cnbe' = split.cnbe
                    /\ list_greedy_sets' = [k \in DOMAIN split.groups |-> {}]
                    /\ events_seen' = events_seen
                                        \cup Seen("candidate", Candidates(ex.events))
                    /\ pc' = "groups"
                    /\ UNCHANGED ret
    /\ base_socs' = call.new_scen
    /\ could_not_be_electrified' = {}
    /\ pre_optimized_set' = None
    /\ group_nr' = 1
    /\ electrified_stations' = ele_stations
    /\ electrified_station_set' = ele_station_set
    /\ UNCHANGED <<call, cfg, ele_stations, ele_station_set, new_electrified_set, cnbe_copy,
                   decision_tree, deep_i, cont_loop, sols, stack, returned>>

\* Lines 268-293: the greedy pass over the next group is called, always with
\* choose_station_step_by_step
GroupGreedy ==
    /\ pc = "groups"
    /\ group_nr <= Len(groups)
    /\ electrified_stations' = base_stations
    /\ electrified_station_set' = base_electrified_station_set
    /\ stack' = << Frame(groups[group_nr], None, groups[group_nr].events, NotPossible,
                         "step", pre_optimized_set, "greedy", base_electrified_station_set,
                         base_stations) >>
    /\ pc' = "greedy"
    /\ UNCHANGED <<call, cfg, ele_stations, ele_station_set, base_socs, groups, group_nr,
                   new_electrified_set, could_not_be_electrified, cnbe_copy, default_cnbe,
                   decision_tree, pre_optimized_set, list_greedy_sets, deep_i, cont_loop,
                   sols, ret, events_seen, returned>>

\* Line 344: the set of the greedy pass is kept for the group
KeepGreedySet == [list_greedy_sets EXCEPT ![group_nr] = electrified_station_set]

\* Lines 294-295 and 344 when opt_type is not "deep": the greedy pass has
\* returned and the next group follows
GroupGreedyDone ==
    /\ pc = "greedy" /\ stack = <<>>
    /\ cfg.opt_type # "deep"
    /\ list_greedy_sets' = KeepGreedySet
    /\ group_nr' = group_nr + 1
    /\ pc' = "groups"
    /\ UNCHANGED <<call, cfg, ele_stations, ele_station_set, base_socs, groups,
                   electrified_stations, electrified_station_set, new_electrified_set,
                   could_not_be_electrified, cnbe_copy, default_cnbe, decision_tree,
                   pre_optimized_set, deep_i, cont_loop, sols, stack, ret, events_seen,
                   returned>>

\* Lines 296-303: the deep loop is set up and the number of combinations is
\* printed; combination_generator makes a list of the set of stations it is given
GroupDeepStart ==
    /\ pc = "greedy" /\ stack = <<>>
    /\ cfg.opt_type = "deep"
    /\ sols' = <<>>
    /\ deep_i' = 0
    /\ cont_loop' = TRUE
    /\ pc' = "deep"
    /\ UNCHANGED <<call, cfg, ele_stations, ele_station_set, base_socs, groups, group_nr,
                   electrified_stations, electrified_station_set, new_electrified_set,
                   could_not_be_electrified, cnbe_copy, default_cnbe, decision_tree,
                   pre_optimized_set, list_greedy_sets, stack, ret, events_seen, returned>>

\* Lines 304-324: one more iteration of the deep loop is called
DeepIterate ==
    /\ pc = "deep"
    /\ deep_i < MaxBruteLoop /\ cont_loop
    /\ deep_i' = deep_i + 1
    /\ pre_optimized_set' = <<electrified_station_set>>
    /\ cnbe_copy' = could_not_be_electrified
    /\ electrified_stations' = base_stations
    /\ new_electrified_set' = {}
    /\ stack' = << Frame(groups[group_nr], None, groups[group_nr].events, NotPossible,
                         IF cfg.node_choice = "brute" THEN "brute" ELSE "step",
                         <<electrified_station_set>>, "deep", {}, base_stations) >>
    /\ pc' = "deep_call"
    /\ UNCHANGED <<call, cfg, ele_stations, ele_station_set, base_socs, groups, group_nr,
                   electrified_station_set, could_not_be_electrified, default_cnbe,
                   decision_tree, list_greedy_sets, cont_loop, sols, ret, events_seen,
                   returned>>

\* Lines 315 and 327-333: the iteration has returned
DeepIterationDone ==
    /\ pc = "deep_call" /\ stack = <<>>
    /\ cont_loop' = ret.flag
    /\ sols' = IF new_electrified_set # pre_optimized_set[1] /\ ret.stations # None
               THEN Append(sols, new_electrified_set) ELSE sols
    /\ pc' = "deep"
    /\ UNCHANGED <<call, cfg, ele_stations, ele_station_set, base_socs, groups, group_nr,
                   electrified_stations, electrified_station_set, new_electrified_set,
                   could_not_be_electrified, cnbe_copy, default_cnbe, decision_tree,
                   pre_optimized_set, list_greedy_sets, deep_i, stack, ret, events_seen,
                   returned>>

\* Lines 304 and 344: the deep loop ends and the next group follows
GroupDeepDone ==
    /\ pc = "deep"
    /\ ~(deep_i < MaxBruteLoop /\ cont_loop)
    /\ list_greedy_sets' = KeepGreedySet
    /\ group_nr' = group_nr + 1
    /\ pc' = "groups"
    /\ UNCHANGED <<call, cfg, ele_stations, ele_station_set, base_socs, groups,
                   electrified_stations, electrified_station_set, new_electrified_set,
                   could_not_be_electrified, cnbe_copy, default_cnbe, decision_tree,
                   pre_optimized_set, deep_i, cont_loop, sols, stack, ret, events_seen,
                   returned>>

RECURSIVE UnionOf(_)
UnionOf(sets) == IF sets = <<>> THEN {} ELSE Head(sets) \cup UnionOf(Tail(sets))

\* Lines 348-352 and 168-172: the sets of all groups are electrified in the map
\* and the set of the last group, and main takes over what is returned
OptimizationLoopReturn ==
    /\ pc = "groups"
    /\ group_nr > Len(groups)
    /\ LET all == UnionOf(list_greedy_sets)
           map == ElectrifyMap(electrified_stations, all)
           set == electrified_station_set \cup all
       IN  /\ electrified_stations' = map
           /\ electrified_station_set' = set
           /\ ele_stations' = map
           /\ ele_station_set' = set
           /\ returned' = [electrified_stations |-> map, electrified_station_set |-> set,
                           could_not_be_electrified |-> could_not_be_electrified,
                           list_greedy_sets |-> list_greedy_sets]
    /\ pc' = "returned"
    /\ UNCHANGED <<call, cfg, base_socs, groups, group_nr, new_electrified_set,
                   could_not_be_electrified, cnbe_copy, default_cnbe, decision_tree,
                   pre_optimized_set, list_greedy_sets, deep_i, cont_loop, sols, stack, ret,
                   events_seen>>

\* config.remove_impossible_rots, which main reads at line 177 for the first time
RemoveImpossibleRots ==
    IF call.remove_impossible_rots = None THEN BOOLEAN
    ELSE {call.remove_impossible_rots[1]}

\* Lines 174-176: the pass is counted and the loop is left, because impossible
\* rotations are not to be removed or because there is none
MainBreak ==
    /\ pc = "returned"
    /\ \E flag \in RemoveImpossibleRots :
          /\ ~flag \/ returned.could_not_be_electrified = {}
          /\ call' = [call EXCEPT !.i = @ + 1, !.remove_impossible_rots = <<flag>>]
    /\ pc' = "done"
    /\ UNCHANGED <<cfg, ele_stations, ele_station_set, base_socs, groups, group_nr,
                   electrified_stations, electrified_station_set, new_electrified_set,
                   could_not_be_electrified, cnbe_copy, default_cnbe, decision_tree,
                   pre_optimized_set, list_greedy_sets, deep_i, cont_loop, sols, stack, ret,
                   events_seen, returned>>

\* exclusion_rots left as it was
ExclusionRotsKept(exclusion_rots, impossible) == exclusion_rots

\* Line 186: exclusion_rots.update(could_not_be_electrified)
ExclusionRotsUpdate(exclusion_rots, impossible) == exclusion_rots \cup impossible

\* run_schedule for the rotations that are left: each keeps its vehicle, and the
\* simulator hands back its trace as given, or as charged at the stations of the
\* map it is run with
FreshBaselines(rotations, stations) ==
    { [v \in {cfg.rots[r].vehicle_id : r \in rotations} |-> socs[v]] :
        socs \in {cfg.socs, timeseries_calc(<<>>, rotations, cfg.socs, stations, cfg.rots)} }

\* Lines 179-190 and 642-666: the rotations that could not be electrified are
\* added to exclusion_rots, and preprocessing_scenario loads the stations file,
\* electrifies the inclusion stations, drops the excluded rotations from the
\* schedule and has the simulator compute a fresh baseline; the loop goes on to
\* a second pass if this was the first
MainRebase ==
    /\ pc = "returned"
    /\ returned.could_not_be_electrified # {}
    /\ TRUE \in RemoveImpossibleRots
    /\ LET exclusion_rots == ExclusionRotsUpdate(call.exclusion_rots,
                                                 returned.could_not_be_electrified)
           rots == SelectSeq(cfg.rot_order, LAMBDA r : r \notin exclusion_rots)
           stations == ElectrifyMap(cfg.file, cfg.inclusion)
       IN  /\ \E new_scen \in FreshBaselines(Range(rots), DOMAIN stations) :
                 call' = [call EXCEPT !.i = @ + 1, !.remove_impossible_rots = <<TRUE>>,
                                      !.exclusion_rots = exclusion_rots,
                                      !.new_sched = rots, !.new_scen = new_scen]
           /\ ele_stations' = stations
           /\ ele_station_set' = cfg.inclusion
    /\ pc' = IF call.i + 1 < MaxPasses THEN "optimization_loop" ELSE "done"
    /\ UNCHANGED <<cfg, base_socs, groups, group_nr, electrified_stations,
                   electrified_station_set, new_electrified_set, could_not_be_electrified,
                   cnbe_copy, default_cnbe, decision_tree, pre_optimized_set,
                   list_greedy_sets, deep_i, cont_loop, sols, stack, ret, events_seen,
                   returned>>

(***************************************************************************)
(* The scenarios the driver is run on: one or two rotations, each with its *)
(* own vehicle and four trips that arrive at minutes 2, 5, 8 and 11; a     *)
(* baseline that falls by a fixed amount per minute from its start value   *)
(* and is back at full charge after the rotation has arrived.              *)
(***************************************************************************)
DriverRot(id, route, st) ==
    [id |-> id, vehicle_id |-> id, dep_idx |-> 0, arr_idx |-> 11, capacity |-> 2,
     trips |-> [k \in 1..4 |->
                   [arrival_time |-> 3 * k - 1,
                    departure_time |-> IF k = 1 THEN 0 ELSE 3 * (k - 1) - 1 + st[k - 1],
                    arrival_name |-> route[k]]]]

Baseline(start, slope) ==
    [t \in 1..13 |-> IF t = 13 THEN SocOne ELSE start - slope * (t - 1)]

Routes == { <<StA, StB, StC, StD>>, <<StA, StB, StA, StD>>, <<StB, StC, StD, StA>>,
            <<StC, StD, StA, StB>> }

Standings == { <<1, 1, 1>>, <<2, 1, 0>>, <<0, 2, 1>>, <<2, 2, 2>> }

Starts == {SocOne, SocOne - 2}

Slopes == {2, 3}

\* What main is configured with: inclusion and exclusion stations, the stations
\* file, opt_type and node_choice
FileEntry == [type |-> "deps", n_charging_stations |-> 2]

Settings ==
    { [inclusion |-> given[1], exclusion |-> exc, file |-> given[2], opt_type |-> mode[1],
       node_choice |-> mode[2]] :
         given \in {<<{}, <<>>>>, <<{StD}, [st \in {StC} |-> FileEntry]>>},
         exc \in {{}, {StB}},
         mode \in {<<"greedy", "step-by-step">>, <<"deep", "step-by-step">>,
                   <<"deep", "brute">>} }

OneRotation ==
    { [rots |-> [r \in {"r1"} |-> DriverRot("r1", route, st)], rot_order |-> <<"r1">>,
       socs |-> [v \in {"r1"} |-> Baseline(start, slope)]] :
         route \in Routes, st \in Standings, start \in Starts, slope \in Slopes }

TwoRotations ==
    { [rots |-> [r \in {"r1", "r2"} |->
                    IF r = "r1" THEN DriverRot("r1", <<StA, StB, StC, StD>>, st1)
                    ELSE DriverRot("r2", route2, st2)],
       rot_order |-> <<"r1", "r2">>,
       socs |-> [v \in {"r1", "r2"} |->
                    IF v = "r1" THEN Baseline(SocOne, 3) ELSE Baseline(SocOne, slope2)]] :
         st1 \in Standings, route2 \in Routes, st2 \in Standings, slope2 \in Slopes }

Worlds == OneRotation \cup TwoRotations

Init ==
    /\ pc = "main"
    /\ \E world \in Worlds, setting \in Settings :
          /\ cfg = [rots |-> world.rots, rot_order |-> world.rot_order, socs |-> world.socs,
                    inclusion |-> setting.inclusion, exclusion |-> setting.exclusion,
                    file |-> setting.file, opt_type |-> setting.opt_type,
                    node_choice |-> setting.node_choice]
          /\ call = [fn |-> "main", i |-> 0, remove_impossible_rots |-> None,
                     exclusion_rots |-> {}, new_sched |-> world.rot_order,
                     new_scen |-> world.socs]
    /\ ele_stations = <<>>
    /\ ele_station_set = {}
    /\ base_socs = <<>>
    /\ groups = <<>>
    /\ group_nr = 0
    /\ electrified_stations = <<>>
    /\ electrified_station_set = {}
    /\ new_electrified_set = {}
    /\ could_not_be_electrified = {}
    /\ cnbe_copy = {}
    /\ default_cnbe = {}
    /\ decision_tree = <<>>
    /\ pre_optimized_set = None
    /\ list_greedy_sets = <<>>
    /\ deep_i = 0
    /\ cont_loop = TRUE
    /\ sols = <<>>
    /\ stack = <<>>
    /\ ret = None
    /\ events_seen = {}
    /\ returned = None

Next ==
    \/ MainElectrifyInclusion
    \/ OptimizationLoopStart
    \/ GroupGreedy
    \/ GroupGreedyDone
    \/ GroupDeepStart
    \/ DeepIterate
    \/ DeepIterationDone
    \/ GroupDeepDone
    \/ OptimizationLoopReturn
    \/ MainBreak
    \/ MainRebase
    \/ QuickAlreadyElectrified
    \/ QuickNoChoice
    \/ QuickElectrify
    \/ QuickRecurse
    \/ QuickUpdate
    \/ QuickReturn

Spec == Init /\ [][Next]_vars

(***************************************************************************)
(* Properties of the search driver.                                        *)
(***************************************************************************)
\* The entry at which the choice function hands back None for the stations while
\* a pre-optimized set exists: the branch is rolled back
RolledBack == AtEntry /\ ~AlreadyElectrified(Top) /\ Choice(Top).shape = "pair"
                /\ Choice(Top).ids = None /\ Top.pre_opt # None

\* C7: a call of group_optimization_quick whose group has missing energy >= 0
\* returns at once with (electrified_stations, True) and leaves the electrified
\* set, the map, the memo, could_not_be_electrified and the baseline traces as
\* they were.
C7_NoDeficitReturnsUnchanged ==
    [][(AtEntry /\ get_missing_energy(Top.group.events) >= 0)
         => /\ stack' = Pop
            /\ ret' = [stations |-> electrified_stations_ref, flag |-> TRUE]
            /\ pc' = pc
            /\ UNCHANGED <<electrified_stations, electrified_station_set,
                           new_electrified_set, decision_tree, could_not_be_electrified,
                           cnbe_copy, default_cnbe, base_socs, cfg>>]_vars

\* The greedy pass over a group without events has returned
C7_Witness ==
    /\ pc = "greedy" /\ stack = <<>>
    /\ get_missing_energy(groups[group_nr].events) >= 0
    /\ ret = [stations |-> electrified_stations_ref, flag |-> TRUE]

\* C9: while the choice function hands back stations, the electrified set of a
\* descent only grows: each call on the stack was entered with a proper
\* superset of the set its caller was entered with, and no step of the
\* recursion other than a roll-back takes a station out of the set.
C9_SetGrowsAlongDescent ==
    /\ [](\A i \in 1..Len(stack) - 1 :
             /\ stack[i].entry_set \subseteq stack[i + 1].entry_set
             /\ stack[i].entry_set # stack[i + 1].entry_set)
    /\ [][(stack # <<>> /\ pc \in {"greedy", "deep_call"} /\ ~RolledBack)
            => (IF Top.target = "deep" THEN new_electrified_set \subseteq new_electrified_set'
                ELSE electrified_station_set \subseteq electrified_station_set')]_vars

\* A descent three calls deep, the innermost of which has made its choice too
C9_Witness ==
    /\ Len(stack) >= 3
    /\ Top.pc = "loop"
    /\ Top.entry_set # TargetSet(Top)

\* C3: every inclusion station is in the electrified set that optimization_loop
\* returns, in greedy and in deep mode, whether or not an event has it as a
\* candidate.
C3_InclusionReturned ==
    pc = "returned" => /\ cfg.inclusion \subseteq returned.electrified_station_set
                       /\ cfg.inclusion \subseteq DOMAIN returned.electrified_stations

\* optimization_loop has returned stations of its own choice next to the
\* inclusion station, which was no candidate of any event
C3_Witness ==
    /\ pc = "returned"
    /\ cfg.inclusion # {}
    /\ \A st \in cfg.inclusion : <<"candidate", st>> \notin events_seen
    /\ returned.electrified_station_set # cfg.inclusion

\* C10 as stated: after a roll-back the electrified set and the map equal what
\* they were when the rolled-back call was entered.
C10_RollbackRestoresEntry ==
    [][RolledBack => /\ (IF Top.target = "deep" THEN new_electrified_set'
                         ELSE electrified_station_set') = Top.entry_set
                     /\ electrified_stations' = Top.entry_map]_vars

\* C10: after a roll-back the electrified set is the pre-optimized set, the map
\* holds every station of the pre-optimized set as an opportunity station and no
\* other station of the set that was rolled back, and the call returns
\* (None, False).
C10_RollbackInstallsPreOptimized ==
    [][RolledBack => /\ (IF Top.target = "deep" THEN new_electrified_set'
                         ELSE electrified_station_set') = Top.pre_opt[1]
                     /\ \A st \in Top.pre_opt[1] :
                           st \in DOMAIN electrified_stations'
                             /\ electrified_stations'[st] = OppsEntry
                     /\ DOMAIN electrified_stations' \cap TargetSet(Top) \subseteq Top.pre_opt[1]
                     /\ ret' = [stations |-> None, flag |-> FALSE]
                     /\ stack' = Pop]_vars

\* An iteration of the deep loop was rolled back to a pre-optimized set that is
\* not the set the iteration was entered with
C10_Witness ==
    /\ pc = "deep_call" /\ stack = <<>>
    /\ ret = [stations |-> None, flag |-> FALSE]
    /\ new_electrified_set = pre_optimized_set[1]
    /\ new_electrified_set # {}

\* Lines 201-203 of main: the kernel applied to the baseline with the returned
\* set, for all rotations; the station it is given is a string that names none
FinalSocs ==
    timeseries_calc(<<>>, Range(call.new_sched), call.new_scen,
                    returned.electrified_station_set, cfg.rots)

GroupRotations == UNION {RotationIds(groups[g].events) : g \in DOMAIN groups}

\* The minutes of its window at which the rotation is below 0 in the given traces
BelowZero(socs, r) ==
    {i \in Range(Window(cfg.rots[r].dep_idx, cfg.rots[r].arr_idx)) :
        At(socs[cfg.rots[r].vehicle_id], i) < 0}

\* C1 as stated: when optimization_loop returns in greedy mode with an empty
\* could_not_be_electrified, no rotation of any group is below 0 inside its
\* window in the traces the kernel computes from the baseline with the returned
\* set.
C1_NoRotationBelowZero ==
    (pc = "returned" /\ cfg.opt_type = "greedy"
       /\ returned.could_not_be_electrified = {})
      => \A r \in GroupRotations : BelowZero(FinalSocs, r) = {}

ImpossibleAtBaseline ==
    LET ex == get_below_zero_soc_events(base_socs, call.new_sched, cfg.rots, SocUpperBase,
                                        0, FALSE, NotPossible)
    IN  {ex.events[k].rotation : k \in {j \in DOMAIN ex.events : ex.events[j].stations = {}}}

\* C12: a rotation with a below-threshold event whose candidate set is empty after
\* the forbidden stations are removed is in the could_not_be_electrified set that
\* optimization_loop returns, also when the first extraction on the baseline finds
\* the event.
C12_ImpossibleRotationsReturned ==
    pc = "returned" => ImpossibleAtBaseline \subseteq returned.could_not_be_electrified

\* The stations beyond the base set that optimization_loop keeps for the group
\* it has just finished
KeptForGroup == list_greedy_sets[group_nr - 1] \ base_electrified_station_set

\* A set that a deep iteration has stored as a solution of the current group has
\* fewer stations beyond the base set than the set of the greedy pass
SmallerSetFound ==
    \E k \in DOMAIN sols :
        Cardinality(sols[k] \ base_electrified_station_set)
            < Cardinality(electrified_station_set \ base_electrified_station_set)

FailureReported ==
    /\ pc \in {"greedy", "deep_call"} /\ stack # <<>> /\ Top.pc = "await"
    /\ Top.pre_opt # None
    /\ ret = [stations |-> None, flag |-> FALSE]

\* C14: when the choice function returns None while a pre-optimized set exists,
\* at any recursion depth, the electrified set is replaced by the pre-optimized
\* set and failure is reported to the caller, and the caller goes on without an
\* error.
C14_RollbackContinues ==
    [][/\ RolledBack => /\ (IF Top.target = "deep" THEN new_electrified_set'
                            ELSE electrified_station_set') = Top.pre_opt[1]
                        /\ ret' = [stations |-> None, flag |-> FALSE]
                        /\ pc' # "raised"
       /\ FailureReported => pc' # "raised"]_vars

\* C15: the impossibility loop of main calls optimization_loop at most twice. It
\* is left after the first pass when remove_impossible_rots is false or
\* could_not_be_electrified is empty; otherwise every rotation of
\* could_not_be_electrified is in exclusion_rots, and out of the schedule, when
\* the fresh baseline is there and the second pass starts.
C15_ImpossibilityLoop ==
    /\ [](pc = "optimization_loop" => call.i < 2)
    /\ [][(pc = "returned" /\ call.i = 0) =>
             IF call'.remove_impossible_rots = <<FALSE>>
                  \/ returned.could_not_be_electrified = {}
             THEN pc' = "done"
             ELSE /\ pc' = "optimization_loop"
                  /\ returned.could_not_be_electrified \subseteq call'.exclusion_rots
                  /\ Range(call'.new_sched) = Range(cfg.rot_order) \ call'.exclusion_rots
                  /\ DOMAIN call'.new_scen = Range(call'.new_sched)]_vars

\* main has made a second pass over a schedule from which the rotations that
\* could not be electrified in the first were taken out, and has left the loop
C15_Witness ==
    /\ pc = "done" /\ call.i = 2
    /\ call.exclusion_rots # {}
    /\ call.new_sched # <<>>
    /\ groups # <<>> /\ groups[1].events # <<>>

\* The call at the top of the stack has no pre-optimized set, its group has missing
\* energy, and every station of the ranking extends the electrified set to a set
\* that is in the memo (which holds when the ranking is empty)
NoStationLeft ==
    /\ AtEntry /\ ~AlreadyElectrified(Top)
    /\ Top.pre_opt = None
    /\ LET station_eval == evaluate(Top.group.events, FrameSocs(Top))
       IN  \A k \in DOMAIN station_eval :
               InTree(decision_tree, TargetSet(Top) \cup {station_eval[k].station})

\* C13: when no pre-optimized set exists and the choice function has no station
\* left to propose for a group with missing energy, group_optimization_quick adds
\* every rotation of the group to could_not_be_electrified and returns failure
\* without raising an error.
C13_NoStationLeftGivesUp ==
    [][NoStationLeft =>
          /\ pc' # "raised"
          /\ RotationIds(Top.group.events)
                \subseteq (IF Top.target = "deep" THEN cnbe_copy'
                           ELSE could_not_be_electrified')
          /\ ret' = [stations |-> None, flag |-> FALSE]
          /\ stack' = Pop]_vars

\* C17: the decision-tree memo is local to the optimization of one group: when
\* the search of a group starts, the memo holds no entry, neither of a group
\* optimized before it nor of an earlier pass of the impossibility loop.
C17_MemoGroupLocal ==
    (pc = "groups" /\ group_nr <= Len(groups)) => DOMAIN decision_tree = {}

Swap(st) ==
    CASE st = StA -> StC [] st = StB -> StD [] st = StC -> StA [] st = StD -> StB

\* Two rotations that are copies of each other under Swap: same times, same
\* baseline trace, swapped stops; nothing is forced or forbidden
MirroredScenario ==
    /\ Len(cfg.rot_order) = 2
    /\ cfg.inclusion = {} /\ cfg.exclusion = {}
    /\ cfg.socs["r1"] = cfg.socs["r2"]
    /\ \A k \in DOMAIN cfg.rots["r1"].trips :
          cfg.rots["r2"].trips[k] =
             [cfg.rots["r1"].trips[k] EXCEPT !.arrival_name = Swap(@)]

\* C16: the set optimization_loop computes for a group depends only on the group,
\* the baseline and the base set, not on the groups optimized before it, in greedy
\* and in deep mode: when the two groups of a scenario are copies of each other
\* under a renaming of the stations, the set of the second group is the renamed
\* set of the first.
C16_GroupsIndependent ==
    (pc = "returned" /\ call.i = 0 /\ MirroredScenario /\ Len(groups) = 2) =>
        list_greedy_sets[2] = {Swap(st) : st \in list_greedy_sets[1]}

\* The ranking that the call on top of the stack works with (line 413)
RankingOf(f) == evaluate(f.group.events, FrameSocs(f))

\* C25: when the search driver evaluates a group and the memo has an entry for
\* electrified + {station}, the pot_sum ranked for that station is the stored
\* delta of missing energy (the entry of the extension minus the entry of the
\* electrified set) instead of the sum of the estimated potentials.
C25_MemoReplacesPotential ==
    (AtEntry /\ ~AlreadyElectrified(Top)) =>
        \A k \in DOMAIN RankingOf(Top) :
            LET check_stations == TargetSet(Top) \cup {RankingOf(Top)[k].station}
            IN  (InTree(decision_tree, check_stations) /\ InTree(decision_tree, TargetSet(Top)))
                    => RankingOf(Top)[k].pot_sum
                          = decision_tree[HashOfSet(check_stations)].missing_energy
                               - decision_tree[HashOfSet(TargetSet(Top))].missing_energy

\* main has neither ended nor raised: exactly then a step of Next can be taken
Running == pc \notin {"done", "raised"}

\* The search driver as a sequential program: a step that can be taken is taken.
\* This is WF_vars(Next) with ENABLED <<Next>>_vars written as Running
SpecFair == Spec /\ (<>[]Running => []<><<Next>>_vars)

\* A call of the greedy pass is active for the first group of the first pass of
\* greedy mode: the memo was empty when the call started
GreedySearchActive ==
    pc = "greedy" /\ cfg.opt_type = "greedy" /\ call.i = 0 /\ group_nr = 1
        /\ stack # <<>>

\* C29: in greedy mode with a memo that is empty at the start,
\* group_optimization_quick terminates for every group: each recursion level
\* electrifies a station that was not electrified before, so the recursion depth
\* is at most the number of candidate stations of the group, and every call of
\* the greedy pass comes to an end.
C29_GreedySearchTerminates ==
    /\ []((pc = "groups" /\ call.i = 0 /\ group_nr = 1) => decision_tree = <<>>)
    /\ [](GreedySearchActive =>
             Len(stack) - 1 <= Cardinality(groups[group_nr].stations))
    /\ [][(GreedySearchActive /\ electrified_station_set' # electrified_station_set) =>
             /\ electrified_station_set \subseteq electrified_station_set'
             /\ Cardinality(electrified_station_set' \ electrified_station_set) = 1
             /\ electrified_station_set' \ electrified_station_set
                   \subseteq groups[group_nr].stations]_vars
    /\ (GreedySearchActive ~> (stack = <<>> \/ pc = "raised"))

\* A call two levels below the call of optimization_loop is active in a greedy
\* pass, its ancestors having electrified one station each
C29_Witness ==
    /\ GreedySearchActive
    /\ Len(stack) = 3
    /\ Cardinality(electrified_station_set \ base_electrified_station_set) >= 2

\* The stations of the returned map that carry the entry electrify_station
\* writes; the entries of the stations file are of another type
OppsKeys(stations) == {st \in DOMAIN stations : stations[st] = OppsEntry}

\* C30: on return from optimization_loop, in greedy and in deep mode, the
\* returned map and the returned electrified set agree: a station is a key
\* with the entry electrify_station writes (type 'opps', n_charging_stations
\* 200) exactly when it is a member of the returned electrified set; no station
\* of an abandoned or rolled-back deep iteration remains in the map.
C30_MapAgreesWithSet ==
    pc = "returned" =>
        OppsKeys(returned.electrified_stations) = returned.electrified_station_set

====
